---- MODULE Spec2Model ----
(***************************************************************************)
(* Position lifecycle and reconciliation engine of crypto_watch_mac_popup. *)
(*                                                                         *)
(* Two books (LIVE, SIM) per symbol, an in-flight set guarded by           *)
(* ORDER_LOCK, the settlement pipeline close_position_one, the             *)
(* reconciliation pass sync_live_positions_periodic, the housekeeping      *)
(* worker, the user-stream push handlers and the market tick handler.      *)
(*                                                                         *)
(* Units: prices and money are integers in 0.01 USDT, quantities are       *)
(* whole contracts, time is in milliseconds.                               *)
(***************************************************************************)
EXTENDS Integers, Sequences, FiniteSets, TLC

\* ------------------------------------------------------------------ bounds
T0 == 6000             \* clock value when the workers start (ms)
MaxEvents == 2         \* capacity of the user-stream queue

\* ------------------------------------------------------- program constants
CLOSE_DEBOUNCE_MS == 600
POS_SYNC_MS == 5000
NET_BACKOFF_BASE_MS == 60000
NET_BACKOFF_MAX_MS == 300000
MAX_CONCURRENT_POS == 3
RISK_PER_TRADE_PCT == 2
LEVERAGE == 10
TAKER_FEE_PCT_E2 == 4           \* TAKER_FEE_PCT = 0.04 (percent), times 100
START_BALANCE == 1000000        \* Account.balance = 10_000.0
AI_EXIT_COOLDOWN_MS == 1500
ROI_EXIT_LOSS_PCT == -5
ROI_EXIT_PROFIT_PCT == 10
ROI_MIN_AGE_SEC == 5
ROI_CONFIRM_SEC == 5
DYN_MIN_SEC_BETWEEN_ADJ == 20
DYN_MIN_TICK_CHANGE_SL == 2
DYN_MIN_TICK_CHANGE_TP == 4
DYN_ONLY_TIGHTEN_SL == FALSE
\* DYN_MULT, k_sl and k_tp times 10
DYN_MULT == [RANGE |-> [k_sl |-> 18, k_tp |-> 26],
             UP |-> [k_sl |-> 25, k_tp |-> 45],
             DOWN |-> [k_sl |-> 25, k_tp |-> 45]]
DYN_MIN_SL_PCT_E2 == 20         \* 0.0020, in 1e-4
DYN_MIN_TP_PCT_E2 == 40         \* 0.0040, in 1e-4
TRAIL_R_MULT_TRIGGER == 1
TRAIL_STEP_ATR_E2 == 75         \* 0.75, times 100
REDUCE_ATTEMPTS == 3      \* for attempt in range(3)
LOSS_STREAK_LIMIT == 3
LOSS_SUSPEND_MS == 14400000      \* LOSS_SUSPEND_SECONDS = 4 * 3600
DAILY_TARGET_PCT_E2 == 20        \* DAILY_TARGET_PCT = 0.2
DAILY_MAX_LOSS_PCT_E2 == 10      \* DAILY_MAX_LOSS_PCT = 0.1
AUTOSAVE_MS == 15000            \* AUTOSAVE_SEC = 15
SNAPSHOT_TRADES == 500          \* ACCOUNT_SIM.trades[-500:]
ONE_POS_PER_SYMBOL == TRUE
EXECUTION_MODE == "BOTH"
SHOW_ACCOUNT == "LIVE"
ML_TRAIN_SOURCES == {"LIVE", "SIM"}   \* as reassigned before ML is built

\* ------------------------------------------------------------- the universe
Symbols == {"s1", "s2", "s3"}
Accounts == {"LIVE", "SIM"}
Threads == {"mkt1", "mkt2", "sync", "hk", "uws", "save", "keep", "dyn"}
Sides == {"LONG", "SHORT"}
TickSteps == {300, 5000}        \* how far one clock advance may go (ms)
Prices == {9400, 10000, 10600}  \* prices the market visits
ENTRY == 10000                  \* the entry price every proposal carries
NoThread == "none"

\* Instrument rules as /fapi/v1/exchangeInfo returns them for every symbol.
RULES == [stepSize |-> 1, minQty |-> 1, tickSize |-> 5, minNotional |-> 500]

Max(a, b) == IF a >= b THEN a ELSE b
Min(a, b) == IF a <= b THEN a ELSE b
Abs(a) == IF a >= 0 THEN a ELSE -a
Sign(side) == IF side = "LONG" THEN 1 ELSE -1

\* ---------------------------------------------------------- python values
NoUid == [k |-> "none", w |-> "", s |-> "", e |-> 0, q |-> 0, t |-> 0]
\* pos_uid f"{which}:{symbol}:{utc_ms()}:{uuid4().hex[:8]}": unique per creation
FreshUid(n) == [k |-> "fresh", w |-> "", s |-> "", e |-> 0, q |-> 0, t |-> n]
\* f"{which}:{symbol}:{p.get('entry')}:{p.get('qty')}"
FallbackUid(w, s, e, q) == [k |-> "fallback", w |-> w, s |-> s, e |-> e, q |-> q, t |-> 0]
\* f"{which}:{symbol}:{p['entry']}:{p['qty']}:{utc_ms()}"
RekeyedUid(w, s, e, q, t) == [k |-> "rekeyed", w |-> w, s |-> s, e |-> e, q |-> q, t |-> t]

\* None in a position slot; id is the identity of the dict object (ghost).
NoPos == [side |-> "NONE", qty |-> 0, entry |-> 0, sl |-> 0, tp |-> 0,
          risk_R |-> 0, uid |-> NoUid, feat |-> FALSE, opened |-> 0, id |-> 0]

VARIABLES
    now,            \* utc_ms() / time.time()
    ticks,          \* clock advances still allowed
    pool,           \* SYMBOLS, the scan pool
    pos,            \* SYMAP[s].position_live / position_sim
    lastPrice,      \* SYMAP[s].last_price (0 = None)
    inflight,       \* OPEN_INFLIGHT
    orderLock,      \* owner of ORDER_LOCK
    trained,        \* _TRAINED_POS_UIDS
    lastCloseTs,    \* _LAST_CLOSE_TS
    acct,           \* ACCOUNT_LIVE / ACCOUNT_SIM ledger fields
    trades,         \* Account.trades
    mlOpen,         \* ML.open_feats keys
    mlSamples,      \* training samples record_close has produced
    ml,             \* the rest of ML: AI_ENABLE, threshold, recent, open_probs,
                    \* the counters, model.n_seen and what ml_state.json holds
    rulesCache,     \* _SYMBOL_RULES_CACHE keys
    venue,          \* the venue's authoritative position per symbol
    mkt,            \* the venue's current price per symbol
    env,            \* what the environment may still do: venue-side exits,
                    \* price moves, injected failures; the highest object id
    hkPrev,         \* _LAST_LIVE_POS_STATE
    lastPosSync,    \* _last_pos_sync
    netBackoffUntil, netBackoffStep,
    lastAiExit,     \* _last_ai_exit_ms
    nextId,         \* next position object id
    proposals,      \* the entry proposals the signal producer will still emit,
                    \* and the symbols it has proposed so far
    forcePending,   \* _reconcile_and_force_close threads not yet run
    uq,             \* user-stream events pushed by the venue and not yet handled
    pc,             \* where each thread is
    cl,             \* close_position_one frame per thread
    sy,             \* sync_live_positions_periodic frame per thread
    po,             \* place_order frame per thread
    hkf,            \* housekeeping_worker frame
    uf,             \* push handler frame
    mf,             \* on_agg_trade frame
    store,          \* the file at STATE_PATH, _state_lock, _last_state_save,
                    \* _SIM_STATE_DONE and the snapshot a persist call holds
    streak,         \* _loss_streak_by_sym and _suspend_until_ts_by_sym (ms)
    stopFlag,       \* UserWSManager.stop_flag
    roiSince,       \* _ROI_HIT_SINCE (0 = no entry)
    atr,            \* ATR(DYN_ATR_LEN) of the symbol's candles (0 = too few candles)
    dyn,            \* _LAST_DYN_ADJ_MS and the frame of dynamic_exit_manager_once
    exits           \* the protective orders as _live_replace_exits last placed them

vars == <<now, ticks, pool, pos, lastPrice, inflight, orderLock, trained,
          lastCloseTs, acct, trades, mlOpen, mlSamples, ml, rulesCache, venue,
          mkt, env, hkPrev, lastPosSync, netBackoffUntil, netBackoffStep,
          lastAiExit, nextId, proposals, forcePending, uq, pc, cl, sy, po, hkf,
          uf, mf, store, streak, stopFlag, roiSince, atr, dyn, exits>>

\* frames at rest
NoVenuePos == [amt |-> 0, entry |-> 0]
\* the objects a fresh process holds besides its books
NoExits == [sl |-> 0, tp |-> 0]
DynIdle == [last |-> [a \in Accounts |-> [s \in Symbols |-> 0]], now_ms |-> 0, todo |-> {}]
\* ------------------------------------------------------ admission model
\* Probabilities and ML.threshold are in percent. NoProb stands for None.
NoProb == -1
ML_THRESHOLD_E2 == 55
AI_MIN_SEEN_FOR_ACTION == 80
ML_TRAIN_AFTER_SEEN == 80
ML_FILTER_AFTER_SEEN == 80
ML_AUTO_ADJUST == TRUE
MlKeys == Accounts \X Symbols
ProbValues == {40, 55, 60, 100}

\* what ML.save writes to ml_state.json, lines 2231-2244 (the weights aside)
ml_saved(m) == [threshold |-> m.threshold, n_seen |-> m.n_seen,
                pos_seen |-> m.pos_seen, neg_seen |-> m.neg_seen]

\* MLManager.__init__ (lines 2007-2021) followed by ML.load (2246-2259) of a
\* file holding these counters; recent is a sequence of <<p, y>>, last_adj is
\* _last_auto_adj in ms (0 = never), enabled is AI_ENABLE
MLManager(enabled, threshold, pos_seen, neg_seen, n_seen, recent) ==
    [enabled |-> enabled, threshold |-> threshold, recent |-> recent,
     open_probs |-> [k \in MlKeys |-> NoProb], last_adj |-> 0,
     pos_seen |-> pos_seen, neg_seen |-> neg_seen, n_seen |-> n_seen,
     saved |-> [threshold |-> threshold, n_seen |-> n_seen,
                pos_seen |-> pos_seen, neg_seen |-> neg_seen]]

\* the shipped configuration on a first start: AI_ENABLE=0, no ml_state.json
MlOff == MLManager(FALSE, ML_THRESHOLD_E2, 0, 0, 0, <<>>)

ml_seen(m) == m.pos_seen + m.neg_seen

\* deque(maxlen=200).append, line 2010
recent_append(recent, e) ==
    IF Len(recent) >= 200 THEN Append(Tail(recent), e) ELSE Append(recent, e)

RECURSIVE SquaredError(_)
SquaredError(recent) ==
    IF recent = <<>> THEN 0
    ELSE (Head(recent)[1] - 100 * Head(recent)[2]) * (Head(recent)[1] - 100 * Head(recent)[2])
         + SquaredError(Tail(recent))

\* _brier_recent (lines 2041-2051) against a level in 1e-4: "none" below 30
\* entries, else how the mean squared error compares
brier_recent(recent, levelE4) ==
    IF Len(recent) < 30 THEN "none"
    ELSE IF SquaredError(recent) > levelE4 * Len(recent) THEN "above"
    ELSE IF SquaredError(recent) < levelE4 * Len(recent) THEN "below"
    ELSE "equal"

\* _recent_precision(th, k=80) < target_precision, lines 2033-2039 and 2069-2070
precision_below_target(recent, th) ==
    LET from == Max(1, Len(recent) - 79)
        cand == {i \in from..Len(recent) : recent[i][1] >= th}
        tp == Cardinality({i \in cand : recent[i][2] = 1})
    IN  cand # {} /\ tp * 100 < 58 * Cardinality(cand)

\* _auto_adjust_threshold, lines 2053-2071; time.time() is seconds since the
\* epoch, so the first call is never within 60 s of _last_auto_adj = 0.0
auto_adjust_threshold(m, now_ms) ==
    IF ~ML_AUTO_ADJUST THEN m
    ELSE IF m.last_adj # 0 /\ now_ms - m.last_adj < 60000 THEN m
    ELSE LET th1 == IF brier_recent(m.recent, 2000) = "above"
                    THEN Min(85, m.threshold + 2)
                    ELSE IF brier_recent(m.recent, 1200) = "below"
                    THEN Max(50, m.threshold - 1)
                    ELSE m.threshold
             th2 == IF precision_below_target(m.recent, th1) THEN Min(90, th1 + 2) ELSE th1
         IN  [m EXCEPT !.last_adj = now_ms, !.threshold = th2]

\* sorted(p0 for p0, _ in recent)[int(0.60 * (len(ps) - 1))], lines 2095-2096
percentile_60(recent) ==
    LET k == (6 * (Len(recent) - 1)) \div 10
        below(v) == Cardinality({i \in DOMAIN recent : recent[i][1] < v})
        upto(v) == Cardinality({i \in DOMAIN recent : recent[i][1] <= v})
    IN  CHOOSE v \in {recent[i][1] : i \in DOMAIN recent} : below(v) <= k /\ k < upto(v)

\* whether should_take gets as far as predict_proba (lines 2078-2091), with a
\* feature vector at hand
should_predict(m) ==
    /\ m.enabled
    /\ ~(ml_seen(m) < AI_MIN_SEEN_FOR_ACTION)
    /\ ~(ml_seen(m) < ML_FILTER_AFTER_SEEN)
    /\ ~(m.n_seen < 30)

\* OnlineLogit.predict_proba, lines 1906-1908: the weights are not modelled, so
\* the value is any of ProbValues; NoProb where should_take never asks
predict_proba(m) == IF should_predict(m) THEN ProbValues ELSE {NoProb}

\* a model that passes its probability on and turns nothing down
take_all(m, p) == [take |-> TRUE, p |-> IF should_predict(m) THEN p ELSE NoProb]

\* should_take after its _auto_adjust_threshold call, lines 2075-2100; p is
\* what predict_proba returns when it is reached
should_take(m, p) ==
    IF ~should_predict(m) THEN [take |-> TRUE, p |-> NoProb]
    ELSE LET th == IF Len(m.recent) >= 50
                   THEN Max(m.threshold, percentile_60(m.recent))
                   ELSE m.threshold
         IN  [take |-> p >= th, p |-> p]

\* record_open's open_probs half, lines 2127-2130
record_open_prob(m, which, sym, p) ==
    IF which \in ML_TRAIN_SOURCES /\ p # NoProb
    THEN [m EXCEPT !.open_probs[<<which, sym>>] = p]
    ELSE m

\* record_close past its open_feats.pop, lines 2151-2202: had_x says whether
\* the pop found a feature vector, pnl_cash is the net result; the label y
\* follows the sign of pnl_cash, whose sign ret_pct_on_notional shares
record_close(m, which, sym, had_x, pnl_cash) ==
    IF which \notin ML_TRAIN_SOURCES THEN m
    ELSE LET key == <<which, sym>>
             p == m.open_probs[key]
             y == IF pnl_cash > 0 THEN 1 ELSE 0
             popped == [m EXCEPT !.open_probs[key] = NoProb]
             counted == [popped EXCEPT !.pos_seen = @ + y, !.neg_seen = @ + (1 - y)]
             can_train == m.enabled /\ ml_seen(counted) >= ML_TRAIN_AFTER_SEEN
         IN  IF ~had_x
             THEN [popped EXCEPT !.recent = recent_append(@, <<50, y>>)]
             ELSE [counted EXCEPT
                     !.recent = IF p # NoProb THEN recent_append(@, <<p, y>>) ELSE @,
                     !.n_seen = IF can_train THEN @ + 3 ELSE @]

\* place_order_one, lines 2736-2741: use_ai_decision
use_ai_decision(m) ==
    m.enabled /\ m.n_seen >= 30 /\ ml_seen(m) >= AI_MIN_SEEN_FOR_ACTION

\* lines 2742-2743: ml_p as place_order_one goes on to use it
effective_ml_p(m, ml_p) == IF ~use_ai_decision(m) THEN NoProb ELSE ml_p

\* lines 2754-2762: the probability filter
filtered_by_p(m, ml_p) ==
    effective_ml_p(m, ml_p) # NoProb /\ use_ai_decision(m) /\ ml_p <= m.threshold

\* a bonus of twice the slope and without the cap of line 2764
eager_risk(m, ml_p) ==
    IF effective_ml_p(m, ml_p) # NoProb /\ use_ai_decision(m) /\ ~(ml_p <= m.threshold)
    THEN [n |-> RISK_PER_TRADE_PCT * ((100 - m.threshold) + 3 * (ml_p - m.threshold)),
          d |-> 100 - m.threshold]
    ELSE [n |-> RISK_PER_TRADE_PCT, d |-> 1]

\* lines 2753-2764: per_trade_risk as the ratio n/d of percent,
\* RISK_PER_TRADE_PCT * (1 + min(1, 1.5 * (ml_p - th) / (1 - th)))
per_trade_risk(m, ml_p) ==
    IF effective_ml_p(m, ml_p) # NoProb /\ use_ai_decision(m) /\ ~(ml_p <= m.threshold)
    THEN [n |-> RISK_PER_TRADE_PCT * (2 * (100 - m.threshold)
                                      + Min(2 * (100 - m.threshold),
                                            3 * (ml_p - m.threshold))),
          d |-> 2 * (100 - m.threshold)]
    ELSE [n |-> RISK_PER_TRADE_PCT, d |-> 1]


AtRestWith(m) ==
    /\ ml = m
    /\ stopFlag = FALSE
    /\ roiSince = [a \in Accounts |-> [s \in Symbols |-> 0]]
    /\ atr = [s \in Symbols |-> 0]
    /\ dyn = DynIdle
    /\ exits = [s \in Symbols |-> NoExits]

AtRest == AtRestWith(MlOff)

NoStreak == [n |-> [s \in Symbols |-> 0], until |-> [s \in Symbols |-> 0]]
NoRisks == [s \in Symbols |-> [amt |-> 0, entry |-> 0, mark |-> 0]]
ClIdle == [sym |-> "", which |-> "", skip |-> FALSE, px |-> 0, src |-> "",
           p |-> NoPos, uid |-> NoUid, ts |-> 0, net |-> 0, ret |-> "",
           sent |-> <<>>, res |-> ""]
\* seen (ghost): the position objects that existed when risks was fetched are
\* those with an id below it; freed (ghost): the symbols whose in-flight marker
\* this pass has discarded
SyIdle == [risks |-> NoRisks, todo |-> {}, cur |-> "", t0 |-> 0, ret |-> "", seen |-> 0,
           freed |-> {}]
PoIdle == [sym |-> "", side |-> "", entry |-> 0, sl |-> 0, tp |-> 0,
           lsl |-> 0, ltp |-> 0, lqty |-> 0, live |-> "", sim |-> "",
           ml_p |-> NoProb, lp |-> NoProb]
\* ok (ghost): whether the read behind cur was answered
HkIdle == [cur |-> [s \in Symbols |-> 0], todo |-> {}, ok |-> TRUE]
UfIdle == [kind |-> "", sym |-> "", side |-> "", close |-> FALSE, px |-> 0,
           rp |-> 0, amt |-> 0, entry |-> 0]
\* due: the ids of the positions whose ROI exit this run found confirmed
MfIdle == [sym |-> "", now |-> 0, due |-> {}]

\* what STATE_PATH holds: nothing, or the JSON text of a snapshot, whole or cut
\* short; a snapshot of the fresh account stands for "no snapshot"
NoSnapshot == [account |-> [balance |-> 0, daily_start_equity |-> 0,
                            daily_pnl |-> 0, total_pnl |-> 0],
               trades |-> <<>>,
               positions |-> [s \in Symbols |-> [side |-> "NONE", qty |-> 0, entry |-> 0,
                                                 sl |-> 0, tp |-> 0]]]
NoFile == [exists |-> FALSE, whole |-> FALSE, data |-> NoSnapshot]
WholeFile(d) == [exists |-> TRUE, whole |-> TRUE, data |-> d]
CutFile(d) == [exists |-> TRUE, whole |-> FALSE, data |-> d]
StoreInit == [file |-> NoFile, tmp |-> NoFile, lock |-> NoThread, last |-> 0,
              done |-> TRUE, data |-> NoSnapshot, at |-> 0, csv |-> <<>>]


\* ------------------------------------------------------------ pure helpers
\* a rounding that truncates whatever the direction
round_toward_zero(priceE4, tick, direction) == (priceE4 \div (tick * 10000)) * tick

\* _round_price_to_tick on a price given in 1e-4 of a price unit: truncate to a
\* multiple of tick, one step up when direction > 0 and the price is off-grid.
round_price_to_tick(priceE4, tick, direction) ==
    LET steps == priceE4 \div (tick * 10000)
        exact == steps * tick * 10000 = priceE4
    IN  IF direction > 0 /\ ~exact THEN (steps + 1) * tick ELSE steps * tick

\* the gap of the comment at line 2524: 5 ticks or 0.05 %
min_gap_five_ticks(entry, tick) == Max(tick * 5 * 10000, entry * 5)

\* min_gap = max(tick * 12.0, entry * 0.0015), in 1e-4 of a price unit
min_gapE4(entry, tick) == Max(tick * 12 * 10000, entry * 15)

apply_min_gap(entry, priceE4, tick, is_above) ==
    IF is_above
    THEN IF priceE4 <= entry * 10000 + min_gapE4(entry, tick)
         THEN entry * 10000 + min_gapE4(entry, tick) ELSE priceE4
    ELSE IF priceE4 >= entry * 10000 - min_gapE4(entry, tick)
         THEN entry * 10000 - min_gapE4(entry, tick) ELSE priceE4

reaffirm_after_tick(entry, priceE4, tick, is_above) ==
    IF is_above
    THEN round_price_to_tick(
             IF priceE4 - entry * 10000 < min_gapE4(entry, tick)
             THEN entry * 10000 + min_gapE4(entry, tick) ELSE priceE4, tick, 1)
    ELSE round_price_to_tick(
             IF entry * 10000 - priceE4 < min_gapE4(entry, tick)
             THEN entry * 10000 - min_gapE4(entry, tick) ELSE priceE4, tick, -1)

\* a step rounding that goes up to the next multiple
ceil_to_step(value, step) == ((value + step - 1) \div step) * step

\* _floor_to_step, lines 62-68
floor_to_step(value, step) == (value \div step) * step

\* a risk percent n/d; RISK_PER_TRADE_PCT when place_order_one does not override it
BaseRisk == [n |-> RISK_PER_TRADE_PCT, d |-> 1]

\* compute_qty in RISK mode with risk_pct_override = risk.n / risk.d: the raw
\* quantity in 1e-2 of a contract.  notional / entry is taken on each side of
\* the min, where the entry of notional_risk cancels:
\*   notional_risk / entry          = balance * risk_pct / 100 / dist
\*   max_notional_by_margin / entry = avail * LEVERAGE * 0.95 / entry
compute_qty(entry, sl, balance, avail, risk) ==
    IF entry <= 0 \/ Abs(entry - sl) <= 0 THEN 0
    ELSE LET by_marginE2 == (Max(0, avail) * LEVERAGE * 95) \div entry
             by_riskE2 == (balance * Max(risk.n, 0)) \div (risk.d * Abs(entry - sl))
         IN  Max(Min(by_riskE2, by_marginE2), 0)

\* qty = _floor_to_step(compute_qty(...), stepSize), in contracts (lines
\* 2715-2716 and 2794-2795)
order_qty(entry, sl, balance, avail, risk) ==
    floor_to_step(compute_qty(entry, sl, balance, avail, risk), RULES.stepSize * 100) \div 100

\* a gate that leaves out the minNotional test of lines 2720-2721
gate_without_notional(side, entry, sl, tp, balance, avail) ==
    LET qty_preview == order_qty(entry, sl, balance, avail, BaseRisk)
        ordered == IF side = "LONG" THEN tp > entry /\ entry > sl
                                    ELSE tp < entry /\ entry < sl
        reject(w) == [ok |-> FALSE, why |-> w, sl |-> 0, tp |-> 0]
    IN  IF ~ordered THEN reject("price order invalid")
        ELSE IF avail <= 0 THEN reject("no available margin")
        ELSE IF qty_preview <= 0 THEN reject("qty_preview=0")
        ELSE IF qty_preview < RULES.minQty THEN reject("qty < minQty")
        ELSE [ok |-> TRUE, why |-> "",
              sl |-> round_price_to_tick(sl * 10000, RULES.tickSize,
                                         IF side = "LONG" THEN -1 ELSE 1),
              tp |-> round_price_to_tick(tp * 10000, RULES.tickSize,
                                         IF side = "LONG" THEN 1 ELSE -1)]

\* pre_trade_gate: (ok, why, sl_aligned, tp_aligned)
pre_trade_gate(side, entry, sl, tp, balance, avail) ==
    LET qty_preview == order_qty(entry, sl, balance, avail, BaseRisk)
        ordered == IF side = "LONG" THEN tp > entry /\ entry > sl
                                    ELSE tp < entry /\ entry < sl
        reject(w) == [ok |-> FALSE, why |-> w, sl |-> 0, tp |-> 0]
    IN  IF ~ordered THEN reject("price order invalid")
        ELSE IF avail <= 0 THEN reject("no available margin")
        ELSE IF qty_preview <= 0 THEN reject("qty_preview=0")
        ELSE IF qty_preview < RULES.minQty THEN reject("qty < minQty")
        ELSE IF RULES.minNotional > 0 /\ qty_preview * entry < RULES.minNotional
             THEN reject("notional < minNotional")
        ELSE [ok |-> TRUE, why |-> "",
              sl |-> round_price_to_tick(sl * 10000, RULES.tickSize,
                                         IF side = "LONG" THEN -1 ELSE 1),
              tp |-> round_price_to_tick(tp * 10000, RULES.tickSize,
                                         IF side = "LONG" THEN 1 ELSE -1)]

\* place_order_one, lines 2775-2791: the exits after the min-gap re-alignment
AlignedExits(side, entry, sl, tp) ==
    LET tick == RULES.tickSize
        up(x) == round_price_to_tick(
                     reaffirm_after_tick(entry, apply_min_gap(entry, x * 10000, tick, TRUE),
                                         tick, TRUE) * 10000, tick, 1)
        dn(x) == round_price_to_tick(
                     reaffirm_after_tick(entry, apply_min_gap(entry, x * 10000, tick, FALSE),
                                         tick, FALSE) * 10000, tick, -1)
        tp1 == IF side = "LONG" THEN up(tp) ELSE dn(tp)
        sl1 == IF side = "LONG" THEN dn(sl) ELSE up(sl)
        okL == tp1 > entry /\ entry > sl1
        okS == tp1 < entry /\ entry < sl1
    IN  IF side = "LONG"
        THEN IF okL THEN [sl |-> sl1, tp |-> tp1]
             ELSE [tp |-> round_price_to_tick(Max(tp1, entry + tick) * 10000, tick, 1),
                   sl |-> round_price_to_tick(Min(sl1, entry - tick) * 10000, tick, -1)]
        ELSE IF okS THEN [sl |-> sl1, tp |-> tp1]
             ELSE [tp |-> round_price_to_tick(Min(tp1, entry - tick) * 10000, tick, -1),
                   sl |-> round_price_to_tick(Max(sl1, entry + tick) * 10000, tick, 1)]

\* est_fee_usdt = (TAKER_FEE_PCT / 100) * (qty * entry * 2)
est_fee(qty, entry) == (TAKER_FEE_PCT_E2 * qty * entry * 2) \div 10000

\* commissions the venue may report for a live round trip (0 on a failed fetch)
LiveFees(qty, entry) == {0, est_fee(qty, entry)}

get_pos(which, s) == pos[which][s]

pos_count_active(which) == Cardinality({s \in pool : get_pos(which, s) # NoPos})

pos_count_including_inflight(which) ==
    pos_count_active(which) + (IF which = "LIVE" THEN Cardinality(inflight) ELSE 0)

symbol_is_blocked(s, which) == get_pos(which, s) # NoPos \/ s \in inflight

\* a debounce that lets every call through
never_too_soon(last, t) == FALSE

\* _close_too_soon's test, evaluated under _LAST_CLOSE_LOCK
close_too_soon(last, t) == t - last < CLOSE_DEBOUNCE_MS

\* threading.Lock: acquirable only while nobody, the caller included, holds it
order_lock_free == orderLock = NoThread

\* ML._ok
ml_ok(which) == which \in ML_TRAIN_SOURCES

\* the last n elements of a list: seq[-n:]
LastN(seq, n) == IF Len(seq) <= n THEN seq ELSE SubSeq(seq, Len(seq) - n + 1, Len(seq))

\* snapshot_sim_state over the SIM account A, its trade list T and the SIM slots P
snapshot_sim_state(A, T, P) ==
    [account |-> [balance |-> A.balance,
                  daily_start_equity |-> IF A.daily_start_equity # 0
                                         THEN A.daily_start_equity ELSE A.balance,
                  daily_pnl |-> A.daily_pnl,
                  total_pnl |-> A.total_pnl],
     trades |-> LastN(T, SNAPSHOT_TRADES),
     positions |-> [s \in Symbols |->
                      IF P[s] # NoPos
                      THEN [side |-> P[s].side, qty |-> P[s].qty, entry |-> P[s].entry,
                            sl |-> P[s].sl, tp |-> P[s].tp]
                      ELSE NoSnapshot.positions[s]]]

\* restore_sim_state, lines 1676-1698: the account, trade list and SIM slots a
\* freshly started process holds after loading snapshot d; ids(s) names the
\* new dict object of symbol s
restored_sim_state(d, ids) ==
    [acct |-> [balance |-> d.account.balance,
               daily_start_equity |-> d.account.daily_start_equity,
               daily_pnl |-> d.account.daily_pnl,
               total_pnl |-> d.account.total_pnl],
     trades |-> d.trades,
     pos |-> [s \in Symbols |->
                IF d.positions[s].side # "NONE"
                THEN [side |-> d.positions[s].side, qty |-> d.positions[s].qty,
                      entry |-> d.positions[s].entry, sl |-> d.positions[s].sl,
                      tp |-> d.positions[s].tp, risk_R |-> 0, uid |-> NoUid,
                      feat |-> FALSE, opened |-> 0, id |-> ids[s]]
                ELSE NoPos]]

\* persist_sim_state(force=True) as _local_open and close_position_one call it,
\* taken in one piece: snapshot, temp file, os.replace
persist_forced(A, T, P) ==
    [store EXCEPT !.file = WholeFile(snapshot_sim_state(A, T, P)), !.last = now]

\* close_position_one, lines 3178-3194: the row of trades.csv written for the
\* account's last trade record r, base_fields only
safe_row(r, which) ==
    [ts |-> r.ts, account |-> which, symbol |-> r.symbol, side |-> r.side,
     entry |-> r.entry, exit |-> r.exit, qty |-> r.qty, pnl_cash |-> r.pnl_cash,
     fee_usdt |-> r.fee_usdt, risk_R |-> r.risk_R, pos_uid |-> r.pos_uid]

\* restore_trades_from_csv, lines 4276-4301: every row of the file is appended
\* to its account's trade list and its pnl_cash added to that account's
\* total_pnl; A and T are the accounts and trade lists before the call
RECURSIVE restore_trades_from_csv(_, _, _)
restore_trades_from_csv(A, T, rows) ==
    IF rows = <<>> THEN [acct |-> A, trades |-> T]
    ELSE LET row == Head(rows)
             a == IF row.account = "LIVE" THEN "LIVE" ELSE "SIM"
             rec == [ts |-> row.ts, symbol |-> row.symbol, side |-> row.side,
                     entry |-> row.entry, exit |-> row.exit,
                     pnl_cash |-> row.pnl_cash, risk_R |-> row.risk_R]
         IN  restore_trades_from_csv(
               [A EXCEPT ![a].total_pnl = @ + rec.pnl_cash,
                         ![a].daily_start_equity = IF @ # 0 THEN @ ELSE A[a].balance],
               [T EXCEPT ![a] = Append(@, rec)],
               Tail(rows))

\* lines 3268-3278: a settlement with net_pnl <= 0 lengthens the symbol's loss
\* streak, and a streak at the limit suspends the symbol; a profit resets it
loss_streak_after(k, s, net_pnl, t) ==
    IF net_pnl <= 0
    THEN [n |-> [k.n EXCEPT ![s] = @ + 1],
          until |-> IF k.n[s] + 1 >= LOSS_STREAK_LIMIT
                    THEN [k.until EXCEPT ![s] = t + LOSS_SUSPEND_MS] ELSE k.until]
    ELSE [k EXCEPT !.n[s] = 0]


\* ------------------------------------------------------------------- Init
InitMl(P, b, bal, m) ==
    /\ now = T0 /\ ticks = b.ticks
    /\ pool = P
    /\ pos = [a \in Accounts |-> [s \in Symbols |-> NoPos]]
    /\ lastPrice = [s \in Symbols |-> 0]
    /\ inflight = {}
    /\ orderLock = NoThread
    /\ trained = {}
    /\ lastCloseTs = [a \in Accounts |-> [s \in Symbols |-> 0]]
    /\ acct = [a \in Accounts |->
                 [balance |-> bal[a], daily_start_equity |-> 0,
                  daily_pnl |-> 0, total_pnl |-> 0]]
    /\ trades = [a \in Accounts |-> <<>>]
    /\ mlOpen = {}
    /\ mlSamples = <<>>
    /\ rulesCache = {}
    /\ venue = [s \in Symbols |-> NoVenuePos]
    /\ mkt = [s \in Symbols |-> ENTRY]
    /\ env = [fills |-> b.fills, moves |-> b.moves, ids |-> b.ids, faults |-> b.faults]
    /\ hkPrev = [s \in Symbols |-> 0]
    /\ lastPosSync = 0
    /\ netBackoffUntil = 0 /\ netBackoffStep = NET_BACKOFF_BASE_MS
    /\ lastAiExit = [a \in Accounts |-> [s \in Symbols |-> 0]]
    /\ nextId = 1
    /\ proposals = [todo |-> b.proposals, used |-> {}]
    /\ forcePending = {}
    /\ uq = <<>>
    /\ pc = [t \in Threads |-> "idle"]
    /\ cl = [t \in Threads |-> ClIdle]
    /\ sy = [t \in Threads |-> SyIdle]
    /\ po = [t \in Threads |-> PoIdle]
    /\ hkf = HkIdle
    /\ uf = UfIdle
    /\ mf = [t \in Threads |-> MfIdle]
    /\ store = StoreInit
    /\ streak = NoStreak
    /\ AtRestWith(m)

InitFunded(P, b, bal) == InitMl(P, b, bal, MlOff)

InitWith(P, b) == InitFunded(P, b, [a \in Accounts |-> START_BALANCE])

\* how far one exploration goes
Budget(t, p, f, m, i, x) ==
    [ticks |-> t, proposals |-> p, fills |-> f, moves |-> m, ids |-> i, faults |-> x]

\* a failure or rejection decided outside the program (a request that fails, a
\* response that is lost, the admission model saying no) spends one of these
Fault == env.faults > 0 /\ env' = [env EXCEPT !.faults = @ - 1]


\* --------------------------------------------------------- frame plumbing
\* what every step of a procedure leaves alone, by group
UNCH_clock == UNCHANGED <<now, ticks>>
UNCH_venue == UNCHANGED <<venue, mkt, uq, forcePending>>
UNCH_env == UNCHANGED env
UNCH_ledger == UNCHANGED <<acct, trades, store>>
UNCH_ml == UNCHANGED <<mlOpen, mlSamples, ml>>
UNCH_dyn == UNCHANGED <<atr, dyn, exits>>
UNCH_aux == UNCHANGED <<stopFlag, roiSince>> /\ UNCH_dyn
UNCH_risk == UNCHANGED streak /\ UNCH_aux
UNCH_sync == UNCHANGED <<lastPosSync, netBackoffUntil, netBackoffStep>>
UNCH_frames == UNCHANGED <<sy, po, hkf, uf, mf>>
UNCH_misc == UNCHANGED <<pool, lastPrice, rulesCache, hkPrev, lastAiExit, nextId, proposals>>

\* the call close_position_one(symbol, reason, px, which, skip_exchange) made by
\* thread t; src names the trigger and ret the caller's continuation
CallClose(t, s, px, which, skip, src, ret) ==
    /\ cl' = [cl EXCEPT ![t] = [ClIdle EXCEPT !.sym = s, !.which = which,
                                   !.skip = skip, !.px = px, !.src = src, !.ret = ret]]
    /\ pc' = [pc EXCEPT ![t] = "cp_read"]

\* events the venue pushes on the user stream after a fill
\* (ORDER_TRADE_UPDATE, always FILLED; rp is the realized PnL less the commission)
OrderEvent(s, side_raw, isClose, ap, rp) ==
    [kind |-> "ORDER", sym |-> s, side |-> side_raw, close |-> isClose, px |-> ap,
     rp |-> rp, amt |-> 0, entry |-> 0]

\* (ACCOUNT_UPDATE with one entry in its position list)
AccountEvent(s, amt, entry) ==
    [kind |-> "ACCOUNT", sym |-> s, side |-> "", close |-> FALSE, px |-> 0,
     rp |-> 0, amt |-> amt, entry |-> entry]

\* what the venue realizes when it closes q contracts of s at its price
VenueRealized(s, q) ==
    q * (mkt[s] - venue[s].entry) * (IF venue[s].amt > 0 THEN 1 ELSE -1)
      - (TAKER_FEE_PCT_E2 * q * mkt[s]) \div 10000
Push(q, evs) == IF Len(q) + Len(evs) <= MaxEvents THEN q \o evs ELSE q

\* ------------------------------------------------------ close_position_one
\* lines 3061-3062 and 797: p = _get_pos(st, which), then _close_too_soon reads
\* now = utc_ms() before it takes _LAST_CLOSE_LOCK
close_position_one_read(t) ==
    /\ pc[t] = "cp_read"
    /\ cl' = [cl EXCEPT ![t].p = get_pos(cl[t].which, cl[t].sym), ![t].ts = now]
    /\ pc' = [pc EXCEPT ![t] = "cp_debounce"]
    /\ UNCHANGED <<pos, inflight, orderLock, trained, lastCloseTs>>
    /\ UNCH_clock /\ UNCH_venue /\ UNCH_env /\ UNCH_ledger /\ UNCH_ml /\ UNCH_risk /\ UNCH_sync
    /\ UNCH_frames /\ UNCH_misc

\* lines 3064-3068 with 801-806: the debounce check-and-set under
\* _LAST_CLOSE_LOCK, then the empty-slot return
close_position_one_debounce(t) ==
    /\ pc[t] = "cp_debounce"
    /\ LET a == cl[t].which
           s == cl[t].sym
       IN  IF close_too_soon(lastCloseTs[a][s], cl[t].ts)
           THEN /\ pc' = [pc EXCEPT ![t] = "cp_debounced"]
                /\ UNCHANGED <<lastCloseTs, cl>>
           ELSE /\ lastCloseTs' = [lastCloseTs EXCEPT ![a][s] = cl[t].ts]
                /\ IF cl[t].p = NoPos
                   THEN /\ pc' = [pc EXCEPT ![t] = cl[t].ret]
                        /\ cl' = [cl EXCEPT ![t] = ClIdle]
                   ELSE /\ pc' = [pc EXCEPT ![t] = "cp_dedup"]
                        /\ cl' = cl
    /\ UNCHANGED <<pos, inflight, orderLock, trained>>
    /\ UNCH_clock /\ UNCH_venue /\ UNCH_env /\ UNCH_ledger /\ UNCH_ml /\ UNCH_risk /\ UNCH_sync
    /\ UNCH_frames /\ UNCH_misc

\* line 3065-3066: add_log("debounce close ..."); return
close_position_one_debounced(t) ==
    /\ pc[t] = "cp_debounced"
    /\ pc' = [pc EXCEPT ![t] = cl[t].ret]
    /\ cl' = [cl EXCEPT ![t] = ClIdle]
    /\ UNCHANGED <<pos, inflight, orderLock, trained, lastCloseTs>>
    /\ UNCH_clock /\ UNCH_venue /\ UNCH_env /\ UNCH_ledger /\ UNCH_ml /\ UNCH_risk /\ UNCH_sync
    /\ UNCH_frames /\ UNCH_misc

\* lines 3070-3080, under _TRAINED_LOCK: a uid already settled is re-keyed when
\* the position still has qty and entry, otherwise the slot is only cleaned up
close_position_one_dedup(t) ==
    /\ pc[t] = "cp_dedup"
    /\ LET a == cl[t].which
           s == cl[t].sym
           p == cl[t].p
           uid0 == IF p.uid # NoUid THEN p.uid ELSE FallbackUid(a, s, p.entry, p.qty)
           next == IF a = "LIVE" /\ ~cl[t].skip THEN "cp_venue" ELSE "cp_book"
       IN  IF uid0 \in trained
           THEN IF Abs(p.qty) > 0 /\ Abs(p.entry) > 0
                THEN /\ trained' = trained \cup {RekeyedUid(a, s, p.entry, p.qty, now)}
                     /\ cl' = [cl EXCEPT ![t].uid = RekeyedUid(a, s, p.entry, p.qty, now)]
                     /\ pc' = [pc EXCEPT ![t] = next]
                     /\ pos' = pos
                ELSE /\ pos' = [pos EXCEPT ![a][s] = NoPos]
                     /\ pc' = [pc EXCEPT ![t] = cl[t].ret]
                     /\ cl' = [cl EXCEPT ![t] = ClIdle]
                     /\ trained' = trained
           ELSE /\ trained' = trained \cup {uid0}
                /\ cl' = [cl EXCEPT ![t].uid = uid0]
                /\ pc' = [pc EXCEPT ![t] = next]
                /\ pos' = pos
    /\ UNCHANGED <<inflight, orderLock, lastCloseTs>>
    /\ UNCH_clock /\ UNCH_venue /\ UNCH_env /\ UNCH_ledger /\ UNCH_ml /\ UNCH_risk /\ UNCH_sync
    /\ UNCH_frames /\ UNCH_misc

\* _live_reduce_only_market_close, lines 1201-1208: the quantity of the first
\* reduce-only order, 0 when there is nothing to send
live_close_qty(qty, pos_qty, step) ==
    LET q0 == IF qty > 0 THEN Min(qty, pos_qty) ELSE pos_qty
        q == floor_to_step(q0, step)
    IN  IF q > 0 THEN q ELSE IF step > pos_qty THEN 0 ELSE step

\* a retry that shrinks without the floor of one step
unfloored_reduce_qty(q, step) == floor_to_step(q - step, step)

\* line 1229: q = max(step, _floor_to_step(q - step, step))
next_reduce_qty(q, step) == Max(step, floor_to_step(q - step, step))

\* the reduce-only orders of the first n passes of the loop of lines 1213-1229
RECURSIVE ReduceOrders(_, _, _)
ReduceOrders(q, step, n) ==
    IF n = 0 THEN <<>>
    ELSE <<[type |-> "MARKET", qty |-> q]>> \o ReduceOrders(next_reduce_qty(q, step), step, n - 1)

\* line 1232-1242: the closePosition=true STOP_MARKET order
StopOrder == [type |-> "STOP_MARKET", qty |-> 0]

\* n failures decided outside the program
Faults(n) == env.faults >= n /\ env' = [env EXCEPT !.faults = @ - n]

\* lines 3088-3097 with _live_reduce_only_market_close (1176-1245): re-read the
\* venue's size, send up to REDUCE_ATTEMPTS reduce-only market orders, then the
\* stop-market fallback; a fill gives px := avgPrice, anything else leaves px
close_position_one_venue(t) ==
    /\ pc[t] = "cp_venue"
    /\ LET s == cl[t].sym
           p == cl[t].p
           size == Abs(venue[s].amt)
           step == RULES.stepSize
           q == live_close_qty(p.qty, size, step)
           wrong == (venue[s].amt > 0) # (p.side = "LONG")   \* reduce-only is rejected
       IN  \/ \* rules not cached and the fetch fails
              /\ s \notin rulesCache
              /\ Fault
              /\ cl' = [cl EXCEPT ![t].res = "raised"]
              /\ UNCHANGED <<venue, uq, rulesCache>>
           \/ \* the venue is read and is flat
              /\ size = 0
              /\ rulesCache' = rulesCache \cup {s}
              /\ cl' = [cl EXCEPT ![t].res = "already_closed"]
              /\ UNCHANGED <<venue, uq, env>>
           \/ \* the read of the venue fails, which counts as flat (line 1194)
              /\ size > 0
              /\ Fault
              /\ rulesCache' = rulesCache \cup {s}
              /\ cl' = [cl EXCEPT ![t].res = "already_closed"]
              /\ UNCHANGED <<venue, uq>>
           \/ \* attempt n + 1 is filled after n rejections
              /\ size > 0 /\ q > 0 /\ ~wrong
              /\ \E n \in 0..(REDUCE_ATTEMPTS - 1) :
                   LET sent == ReduceOrders(q, step, n + 1)
                       qn == sent[n + 1].qty
                       left == size - qn
                   IN  /\ Faults(n)
                       /\ qn <= size
                       /\ venue' = [venue EXCEPT ![s] =
                                       IF left = 0 THEN NoVenuePos
                                       ELSE [@ EXCEPT !.amt = Sign(p.side) * left]]
                       /\ uq' = Push(uq, <<OrderEvent(s, IF p.side = "LONG" THEN "SELL"
                                                         ELSE "BUY",
                                                      TRUE, mkt[s], VenueRealized(s, qn)),
                                           AccountEvent(s, Sign(p.side) * left,
                                                        IF left = 0 THEN 0
                                                        ELSE venue[s].entry)>>)
                       /\ cl' = [cl EXCEPT ![t].px = mkt[s], ![t].sent = sent,
                                           ![t].res = "filled"]
              /\ rulesCache' = rulesCache \cup {s}
           \/ \* every reduce-only attempt is rejected; the fallback rests or fails
              /\ size > 0 /\ q > 0
              /\ \E stopFails \in BOOLEAN :
                   /\ Faults((IF wrong THEN 0 ELSE REDUCE_ATTEMPTS)
                             + (IF stopFails THEN 1 ELSE 0))
                   /\ cl' = [cl EXCEPT
                               ![t].sent = ReduceOrders(q, step, REDUCE_ATTEMPTS)
                                             \o <<StopOrder>>,
                               ![t].res = IF stopFails THEN "raised" ELSE "resting"]
              /\ rulesCache' = rulesCache \cup {s}
              /\ UNCHANGED <<venue, uq>>
    /\ pc' = [pc EXCEPT ![t] = "cp_book"]
    /\ UNCHANGED <<pos, inflight, orderLock, trained, lastCloseTs, mkt, forcePending>>
    /\ UNCH_clock /\ UNCH_ledger /\ UNCH_ml /\ UNCH_risk /\ UNCH_sync /\ UNCH_frames
    /\ UNCHANGED <<pool, lastPrice, hkPrev, lastAiExit, nextId, proposals>>

\* lines 3099-3155: PnL, fee, ledger update and the trade record
close_position_one_book(t) ==
    /\ pc[t] = "cp_book"
    /\ LET a == cl[t].which
           p == cl[t].p
           gross_pnl == p.qty * (cl[t].px - p.entry) * Sign(p.side)
       IN  \E fee_usdt \in (IF a = "LIVE" THEN LiveFees(p.qty, p.entry)
                                        ELSE {est_fee(p.qty, p.entry)}) :
             LET net_pnl == gross_pnl - fee_usdt
             IN  /\ IF a = "LIVE" /\ fee_usdt = 0 THEN Fault ELSE UNCH_env
                 /\ acct' = [acct EXCEPT
                               ![a].total_pnl = @ + net_pnl,
                               ![a].balance = IF a = "SIM" THEN @ + net_pnl ELSE @,
                               ![a].daily_pnl = IF a = "SIM" THEN @ + net_pnl ELSE @]
                 /\ trades' = [trades EXCEPT ![a] = Append(@,
                        [symbol |-> cl[t].sym, side |-> p.side, entry |-> p.entry,
                         exit |-> cl[t].px, qty |-> p.qty, pnl_cash |-> net_pnl,
                         fee_usdt |-> fee_usdt, risk_R |-> p.risk_R,
                         pos_uid |-> cl[t].uid, account |-> a,
                         id |-> p.id, ts |-> cl[t].ts, src |-> cl[t].src,
                         skip |-> cl[t].skip])]
                 /\ cl' = [cl EXCEPT ![t].net = net_pnl]
    /\ pc' = [pc EXCEPT ![t] = "cp_clear"]
    /\ UNCHANGED <<pos, inflight, orderLock, trained, lastCloseTs, store>>
    /\ UNCH_clock /\ UNCH_venue /\ UNCH_ml /\ UNCH_risk /\ UNCH_sync /\ UNCH_frames /\ UNCH_misc

\* lines 3172-3223: append the account's last trade record to trades.csv,
\* re-register a lost open-feature sample, then clear the slot
close_position_one_clear(t) ==
    /\ pc[t] = "cp_clear"
    /\ LET a == cl[t].which
           s == cl[t].sym
           key == <<a, s>>
       IN  /\ \E fromState \in BOOLEAN :
                mlOpen' = IF key \notin mlOpen /\ (cl[t].p.feat \/ fromState) /\ ml_ok(a)
                          THEN mlOpen \cup {key} ELSE mlOpen
           /\ store' = IF trades[a] # <<>>
                        THEN [store EXCEPT
                                !.csv = Append(@, safe_row(trades[a][Len(trades[a])], a))]
                        ELSE store
           /\ pos' = [pos EXCEPT ![a][s] = NoPos]
           /\ pc' = [pc EXCEPT ![t] = IF a = "LIVE" THEN "cp_unflight" ELSE "cp_train"]
    /\ UNCHANGED <<inflight, orderLock, trained, lastCloseTs, cl, mlSamples, ml>>
    /\ UNCHANGED <<acct, trades>>
    /\ UNCH_clock /\ UNCH_venue /\ UNCH_env /\ UNCH_sync /\ UNCH_frames /\ UNCH_misc
    /\ UNCH_risk

\* lines 3224-3228: with ORDER_LOCK: OPEN_INFLIGHT.discard(symbol)
close_position_one_unflight(t) ==
    /\ pc[t] = "cp_unflight"
    /\ order_lock_free
    /\ inflight' = inflight \ {cl[t].sym}
    /\ pc' = [pc EXCEPT ![t] = "cp_train"]
    /\ UNCHANGED <<pos, orderLock, trained, lastCloseTs, cl>>
    /\ UNCH_clock /\ UNCH_venue /\ UNCH_env /\ UNCH_ledger /\ UNCH_ml /\ UNCH_risk /\ UNCH_sync
    /\ UNCH_frames /\ UNCH_misc

\* lines 3230-3278: ML.record_close pops the open sample and trains on it,
\* ML.save writes the counters; a
\* LIVE close also starts the _reconcile_and_force_close thread, a SIM close
\* saves the SIM state (which waits for _state_lock); last, the loss streak
close_position_one_train(t) ==
    /\ pc[t] = "cp_train"
    /\ LET a == cl[t].which
           s == cl[t].sym
           key == <<a, s>>
       IN  /\ mlOpen' = IF ml_ok(a) THEN mlOpen \ {key} ELSE mlOpen
           /\ mlSamples' = IF ml_ok(a) /\ key \in mlOpen
                           THEN Append(mlSamples, [which |-> a, sym |-> s, id |-> cl[t].p.id])
                           ELSE mlSamples
           /\ ml' = LET m == record_close(ml, a, s, key \in mlOpen, cl[t].net)
                    IN  [m EXCEPT !.saved = ml_saved(m)]
           /\ forcePending' = IF a = "LIVE" THEN forcePending \cup {s} ELSE forcePending
           /\ a = "SIM" => store.lock = NoThread
           /\ store' = IF a = "SIM"
                        THEN persist_forced(acct["SIM"], trades["SIM"], pos["SIM"])
                        ELSE store
           /\ streak' = loss_streak_after(streak, s, cl[t].net, now)
    /\ UNCH_aux
    /\ pc' = [pc EXCEPT ![t] = cl[t].ret]
    /\ cl' = [cl EXCEPT ![t] = ClIdle]
    /\ UNCHANGED <<pos, inflight, orderLock, trained, lastCloseTs, venue, mkt, env, uq>>
    /\ UNCHANGED <<acct, trades>>
    /\ UNCH_clock /\ UNCH_sync /\ UNCH_frames /\ UNCH_misc

\* lines 3242-3257: the background re-check that closes what the venue still holds
reconcile_and_force_close(s) ==
    /\ s \in forcePending
    /\ forcePending' = forcePending \ {s}
    /\ \/ UNCHANGED <<venue, uq>>          \* flat, or the read or the order failed
       \/ /\ venue[s].amt # 0
          /\ venue' = [venue EXCEPT ![s] = NoVenuePos]
          /\ uq' = Push(uq, <<OrderEvent(s, IF venue[s].amt > 0 THEN "SELL" ELSE "BUY",
                                         TRUE, mkt[s],
                                         VenueRealized(s, Abs(venue[s].amt))),
                              AccountEvent(s, 0, 0)>>)
    /\ UNCHANGED <<pos, inflight, orderLock, trained, lastCloseTs, mkt, env, pc, cl>>
    /\ UNCH_clock /\ UNCH_ledger /\ UNCH_ml /\ UNCH_risk /\ UNCH_sync /\ UNCH_frames /\ UNCH_misc

close_position_one(t) ==
    \/ close_position_one_read(t)
    \/ close_position_one_debounce(t)
    \/ close_position_one_debounced(t)
    \/ close_position_one_dedup(t)
    \/ close_position_one_venue(t)
    \/ close_position_one_book(t)
    \/ close_position_one_clear(t)
    \/ close_position_one_unflight(t)
    \/ close_position_one_train(t)


\* -------------------------------------------- sync_live_positions_periodic
CallSync(t, ret) ==
    /\ sy' = [sy EXCEPT ![t] = [SyIdle EXCEPT !.ret = ret]]
    /\ pc' = [pc EXCEPT ![t] = "sy_start"]

\* a position dict as reconciliation writes it:
\* {"side", "qty", "entry", "trail"} plus setdefault("pos_uid", ...)
AdoptedPos(amt, entry, uid, feat, opened, id) ==
    [side |-> IF amt > 0 THEN "LONG" ELSE "SHORT", qty |-> Abs(amt), entry |-> entry,
     sl |-> 0, tp |-> 0, risk_R |-> 0, uid |-> uid, feat |-> feat,
     opened |-> opened, id |-> id]

\* a comparison that takes every local position for a changed one
divergent_always(p, amt, entry) == TRUE

\* lines 1490-1492: side, qty or entry differ from the venue's
Divergent(p, amt, entry) ==
    \/ p.side # (IF amt > 0 THEN "LONG" ELSE "SHORT")
    \/ p.qty # Abs(amt)
    \/ p.entry # entry

\* _NET_BACKOFF_STEP = min(_NET_BACKOFF_MAX, _NET_BACKOFF_STEP * 1.7)
next_backoff_step(step) == Min(NET_BACKOFF_MAX_MS, (step * 17) \div 10)

\* lines 1417-1426: the back-off and throttle gates
sync_start(t) ==
    /\ pc[t] = "sy_start"
    /\ IF now < netBackoffUntil \/ now - lastPosSync < POS_SYNC_MS
       THEN /\ pc' = [pc EXCEPT ![t] = sy[t].ret]
            /\ sy' = [sy EXCEPT ![t] = SyIdle]
            /\ UNCHANGED lastPosSync
       ELSE /\ lastPosSync' = now
            /\ sy' = [sy EXCEPT ![t].t0 = now]
            /\ pc' = [pc EXCEPT ![t] = "sy_fetch"]
    /\ UNCHANGED <<pos, inflight, orderLock, trained, lastCloseTs, cl,
                   netBackoffUntil, netBackoffStep, po, hkf, uf, mf>>
    /\ UNCH_clock /\ UNCH_venue /\ UNCH_env /\ UNCH_ledger /\ UNCH_ml /\ UNCH_risk /\ UNCH_misc

\* lines 1428-1460: GET /fapi/v2/positionRisk, back-off on a transport
\* failure; on an answer, to_check = SYMBOLS plus every symbol held locally
sync_fetch(t) ==
    /\ pc[t] = "sy_fetch"
    /\ \/ /\ sy' = [sy EXCEPT
                      ![t].risks = [s \in Symbols |->
                                      [amt |-> venue[s].amt, entry |-> venue[s].entry,
                                       mark |-> mkt[s]]],
                      ![t].todo = pool \cup {s \in Symbols : pos["LIVE"][s] # NoPos},
                      ![t].seen = nextId]
          /\ netBackoffUntil' = 0
          /\ netBackoffStep' = NET_BACKOFF_BASE_MS
          /\ pc' = [pc EXCEPT ![t] = "sy_loop"]
          /\ UNCH_env
       \/ /\ Fault
          /\ netBackoffUntil' = sy[t].t0 + netBackoffStep
          /\ netBackoffStep' = next_backoff_step(netBackoffStep)
          /\ pc' = [pc EXCEPT ![t] = sy[t].ret]
          /\ sy' = [sy EXCEPT ![t] = SyIdle]
    /\ UNCHANGED <<pos, inflight, orderLock, trained, lastCloseTs, cl, lastPosSync,
                   po, hkf, uf, mf>>
    /\ UNCH_clock /\ UNCH_venue /\ UNCH_ledger /\ UNCH_ml /\ UNCH_risk /\ UNCH_misc

\* lines 1462-1533: one symbol of the pass
sync_loop(t) ==
    /\ pc[t] = "sy_loop"
    /\ IF sy[t].todo = {}
       THEN /\ pc' = [pc EXCEPT ![t] = sy[t].ret]
            /\ sy' = [sy EXCEPT ![t] = SyIdle]
            /\ UNCHANGED <<pos, cl, mlOpen, nextId>>
       ELSE \E s \in sy[t].todo :
              LET exch == sy[t].risks[s]
                  mark == IF exch.mark # 0 THEN exch.mark ELSE lastPrice[s]
                  local_pos == pos["LIVE"][s]
              IN  IF exch.amt = 0
                  THEN /\ sy' = [sy EXCEPT ![t].todo = @ \ {s}]
                       /\ IF local_pos # NoPos
                          THEN CallClose(t, s, IF mark > 0 THEN mark ELSE local_pos.entry,
                                         "LIVE", TRUE, "sync", "sy_loop")
                          ELSE UNCHANGED <<pc, cl>>
                       /\ UNCHANGED <<pos, mlOpen, nextId>>
                  ELSE /\ sy' = [sy EXCEPT ![t].cur = s]
                       /\ pc' = [pc EXCEPT ![t] = "sy_unflight"]
                       /\ cl' = cl
                       /\ IF local_pos = NoPos \/ Divergent(local_pos, exch.amt, exch.entry)
                          THEN /\ nextId <= env.ids
                               /\ nextId' = nextId + 1
                               /\ LET reg == <<"LIVE", s>> \notin mlOpen
                                  IN  /\ pos' = [pos EXCEPT !["LIVE"][s] =
                                             AdoptedPos(exch.amt, exch.entry, FreshUid(nextId),
                                                        reg, IF reg THEN now ELSE 0, nextId)]
                                      /\ mlOpen' = mlOpen \cup {<<"LIVE", s>>}
                          ELSE UNCHANGED <<pos, mlOpen, nextId>>
    /\ UNCHANGED <<inflight, orderLock, trained, lastCloseTs, mlSamples, ml, po, hkf, uf, mf>>
    /\ UNCH_clock /\ UNCH_venue /\ UNCH_env /\ UNCH_ledger /\ UNCH_sync /\ UNCH_risk
    /\ UNCHANGED <<pool, lastPrice, rulesCache, hkPrev, lastAiExit, proposals>>

\* lines 1535-1537: with ORDER_LOCK: OPEN_INFLIGHT.discard(s)
sync_unflight(t) ==
    /\ pc[t] = "sy_unflight"
    /\ order_lock_free
    /\ inflight' = inflight \ {sy[t].cur}
    /\ sy' = [sy EXCEPT ![t].todo = @ \ {sy[t].cur}, ![t].cur = "",
                         ![t].freed = @ \cup ({sy[t].cur} \cap inflight)]
    /\ pc' = [pc EXCEPT ![t] = "sy_loop"]
    /\ UNCHANGED <<pos, orderLock, trained, lastCloseTs, cl, po, hkf, uf, mf>>
    /\ UNCH_clock /\ UNCH_venue /\ UNCH_env /\ UNCH_ledger /\ UNCH_ml /\ UNCH_risk /\ UNCH_sync /\ UNCH_misc

sync_live_positions_periodic(t) ==
    \/ sync_start(t)
    \/ sync_fetch(t)
    \/ sync_loop(t)
    \/ sync_unflight(t)

\* pos_sync_worker: while True: sync_live_positions_periodic(); sleep(1.0)
pos_sync_worker(t) ==
    /\ pc[t] = "idle"
    /\ CallSync(t, "idle")
    /\ UNCHANGED <<pos, inflight, orderLock, trained, lastCloseTs, cl, po, hkf, uf, mf>>
    /\ UNCH_clock /\ UNCH_venue /\ UNCH_env /\ UNCH_ledger /\ UNCH_ml /\ UNCH_risk /\ UNCH_sync /\ UNCH_misc

\* ------------------------------------------------------ housekeeping_worker
\* lines 815-820: read the venue (get_all_positions answers [] on any failure)
\* and list the symbols held on the previous pass and not on this one
housekeeping_fetch(t) ==
    /\ pc[t] = "idle"
    /\ \E ok \in BOOLEAN :
          LET cur == [s \in Symbols |-> IF ok /\ venue[s].amt # 0 THEN mkt[s] ELSE 0]
          IN  /\ IF ok THEN UNCH_env ELSE Fault
              /\ hkf' = [cur |-> cur, todo |-> {s \in Symbols : hkPrev[s] # 0 /\ cur[s] = 0},
                      ok |-> ok]
    /\ pc' = [pc EXCEPT ![t] = "hk_loop"]
    /\ UNCHANGED <<pos, inflight, orderLock, trained, lastCloseTs, cl, sy, po, uf, mf>>
    /\ UNCH_clock /\ UNCH_venue /\ UNCH_ledger /\ UNCH_ml /\ UNCH_risk /\ UNCH_sync /\ UNCH_misc

\* lines 821-841: settle each vanished symbol at the previous pass's mark price
housekeeping_loop(t) ==
    /\ pc[t] = "hk_loop"
    /\ IF hkf.todo = {}
       THEN /\ hkPrev' = hkf.cur
            /\ hkf' = HkIdle
            /\ pc' = [pc EXCEPT ![t] = "idle"]
            /\ cl' = cl
       ELSE \E s \in hkf.todo :
              /\ hkf' = [hkf EXCEPT !.todo = @ \ {s}]
              /\ CallClose(t, s, hkPrev[s], "LIVE", TRUE, "hk", "hk_loop")
              /\ hkPrev' = hkPrev
    /\ UNCHANGED <<pos, inflight, orderLock, trained, lastCloseTs, sy, po, uf, mf>>
    /\ UNCH_clock /\ UNCH_venue /\ UNCH_env /\ UNCH_ledger /\ UNCH_ml /\ UNCH_risk /\ UNCH_sync
    /\ UNCHANGED <<pool, lastPrice, rulesCache, lastAiExit, nextId, proposals>>

housekeeping_worker(t) ==
    \/ housekeeping_fetch(t)
    \/ housekeeping_loop(t)


\* ------------------------------------------------------ UserWSManager
\* _on_message, lines 4371-4377: take the next event; an order update of a
\* filled order first runs a reconciliation pass (lines 4401-4405)
user_stream_recv(t) ==
    /\ pc[t] = "idle"
    /\ uq # <<>>
    /\ uf' = Head(uq)
    /\ uq' = Tail(uq)
    /\ IF Head(uq).kind = "ORDER"
       THEN CallSync(t, "ou_local")
       ELSE pc' = [pc EXCEPT ![t] = "au_handle"] /\ sy' = sy
    /\ UNCHANGED <<pos, inflight, orderLock, trained, lastCloseTs, cl, po, hkf, mf,
                   venue, mkt, env, forcePending>>
    /\ UNCH_clock /\ UNCH_ledger /\ UNCH_ml /\ UNCH_risk /\ UNCH_sync /\ UNCH_misc

\* _handle_order_trade_update, lines 4412-4439
order_trade_update_local(t) ==
    /\ pc[t] = "ou_local"
    /\ LET local == pos["LIVE"][uf.sym]
           opp_by_side == \/ local.side = "LONG" /\ uf.side = "SELL"
                          \/ local.side = "SHORT" /\ uf.side = "BUY"
           px == IF uf.px > 0 THEN uf.px
                 ELSE IF lastPrice[uf.sym] # 0 THEN lastPrice[uf.sym] ELSE local.entry
       IN  IF local # NoPos /\ (uf.close \/ opp_by_side)
           THEN CallClose(t, uf.sym, px, "LIVE", TRUE, "order", "ou_refine")
           ELSE pc' = [pc EXCEPT ![t] = "ou_unflight"] /\ cl' = cl
    /\ UNCHANGED <<pos, inflight, orderLock, trained, lastCloseTs>>
    /\ UNCH_clock /\ UNCH_venue /\ UNCH_env /\ UNCH_ledger /\ UNCH_ml /\ UNCH_risk /\ UNCH_sync
    /\ UNCH_frames /\ UNCH_misc

\* lines 4441-4454: overwrite the last live trade's PnL with the venue's figure
order_trade_update_refine(t) ==
    /\ pc[t] = "ou_refine"
    /\ LET tr == trades["LIVE"]
           n == Len(tr)
       IN  IF n > 0 /\ tr[n].symbol = uf.sym
           THEN LET delta == uf.rp - tr[n].pnl_cash
                IN  /\ trades' = [trades EXCEPT !["LIVE"][n].pnl_cash = uf.rp]
                    /\ acct' = [acct EXCEPT !["LIVE"].balance = @ + delta,
                                            !["LIVE"].daily_pnl = @ + delta,
                                            !["LIVE"].total_pnl = @ + delta]
           ELSE UNCHANGED <<trades, acct>>
    /\ pc' = [pc EXCEPT ![t] = "ou_unflight"]
    /\ UNCHANGED <<pos, inflight, orderLock, trained, lastCloseTs, cl, store>>
    /\ UNCH_clock /\ UNCH_venue /\ UNCH_env /\ UNCH_ml /\ UNCH_risk /\ UNCH_sync /\ UNCH_frames /\ UNCH_misc

\* lines 4421-4423, 4457-4458, 4461-4463: with ORDER_LOCK: OPEN_INFLIGHT.discard(sym)
order_trade_update_unflight(t) ==
    /\ pc[t] = "ou_unflight"
    /\ order_lock_free
    /\ inflight' = inflight \ {uf.sym}
    /\ uf' = UfIdle
    /\ pc' = [pc EXCEPT ![t] = "idle"]
    /\ UNCHANGED <<pos, orderLock, trained, lastCloseTs, cl, sy, po, hkf, mf>>
    /\ UNCH_clock /\ UNCH_venue /\ UNCH_env /\ UNCH_ledger /\ UNCH_ml /\ UNCH_risk /\ UNCH_sync /\ UNCH_misc

handle_order_trade_update(t) ==
    \/ order_trade_update_local(t)
    \/ order_trade_update_refine(t)
    \/ order_trade_update_unflight(t)

\* _handle_account_update, lines 4464-4488
handle_account_update(t) ==
    /\ pc[t] = "au_handle"
    /\ LET s == uf.sym
           local == pos["LIVE"][s]
       IN  IF uf.amt = 0
           THEN /\ IF local # NoPos
                   THEN CallClose(t, s, IF lastPrice[s] # 0 THEN lastPrice[s] ELSE local.entry,
                                  "LIVE", FALSE, "account", "idle")
                   ELSE pc' = [pc EXCEPT ![t] = "idle"] /\ cl' = cl
                /\ UNCHANGED <<pos, nextId>>
           ELSE /\ pc' = [pc EXCEPT ![t] = "idle"]
                /\ cl' = cl
                /\ IF \/ local = NoPos
                      \/ local.side # (IF uf.amt > 0 THEN "LONG" ELSE "SHORT")
                      \/ local.qty # Abs(uf.amt)
                   THEN /\ nextId <= env.ids
                        /\ nextId' = nextId + 1
                        /\ pos' = [pos EXCEPT !["LIVE"][s] =
                                     AdoptedPos(uf.amt, uf.entry, NoUid, FALSE, 0, nextId)]
                   ELSE UNCHANGED <<pos, nextId>>
    /\ uf' = UfIdle
    /\ UNCHANGED <<inflight, orderLock, trained, lastCloseTs, sy, po, hkf, mf>>
    /\ UNCH_clock /\ UNCH_venue /\ UNCH_env /\ UNCH_ledger /\ UNCH_ml /\ UNCH_risk /\ UNCH_sync
    /\ UNCHANGED <<pool, lastPrice, rulesCache, hkPrev, lastAiExit, proposals>>

\* ------------------------------------------------------------- environment
\* the wall clock
Tick ==
    /\ ticks > 0
    /\ \E d \in TickSteps : now' = now + d
    /\ ticks' = ticks - 1
    /\ UNCHANGED <<pos, inflight, orderLock, trained, lastCloseTs, pc, cl>>
    /\ UNCH_venue /\ UNCH_env /\ UNCH_ledger /\ UNCH_ml /\ UNCH_risk /\ UNCH_sync /\ UNCH_frames /\ UNCH_misc

\* the market trades at another price
PriceMoveTo(xs) ==
    /\ env.moves > 0
    /\ \E s \in pool, x \in xs :
          /\ x # mkt[s]
          /\ mkt' = [mkt EXCEPT ![s] = x]
    /\ env' = [env EXCEPT !.moves = @ - 1]
    /\ UNCHANGED <<pos, inflight, orderLock, trained, lastCloseTs, pc, cl,
                   venue, uq, forcePending>>
    /\ UNCH_clock /\ UNCH_ledger /\ UNCH_ml /\ UNCH_risk /\ UNCH_sync /\ UNCH_frames /\ UNCH_misc

PriceMove == PriceMoveTo(Prices)

\* a resting exit order (lines 2495-2514) fills: the venue closes the position
\* and pushes the order and account updates
VenueFill ==
    /\ env.fills > 0
    /\ \E s \in pool :
          /\ venue[s].amt # 0
          /\ venue' = [venue EXCEPT ![s] = NoVenuePos]
          /\ uq' = Push(uq, <<OrderEvent(s, IF venue[s].amt > 0 THEN "SELL" ELSE "BUY",
                                         TRUE, mkt[s], VenueRealized(s, Abs(venue[s].amt))),
                              AccountEvent(s, 0, 0)>>)
    /\ env' = [env EXCEPT !.fills = @ - 1]
    /\ UNCHANGED <<pos, inflight, orderLock, trained, lastCloseTs, pc, cl, mkt, forcePending>>
    /\ UNCH_clock /\ UNCH_ledger /\ UNCH_ml /\ UNCH_risk /\ UNCH_sync /\ UNCH_frames /\ UNCH_misc


\* ------------------------------------------------------------ on_agg_trade
\* current_roi_pct compared with the two AI-exit thresholds (lines 3287-3299,
\* 3776-3786): roi < -5.0 or roi > 10.0, cross-multiplied to stay in integers
ai_should_exit_for(p, last) ==
    /\ p # NoPos
    /\ last # 0
    /\ LET move == (last - p.entry) * Sign(p.side) * LEVERAGE * 10000
           fee == TAKER_FEE_PCT_E2 * 2 * p.entry
       IN  \/ move - fee < -500 * p.entry
           \/ move - fee > 1000 * p.entry

\* _check_tp_sl_and_close_if_hit, lines 2673-2679
tp_sl_hit(p, px) ==
    /\ p # NoPos
    /\ IF p.side = "LONG"
       THEN (p.sl # 0 /\ px <= p.sl) \/ (p.tp # 0 /\ px >= p.tp)
       ELSE (p.sl # 0 /\ px >= p.sl) \/ (p.tp # 0 /\ px <= p.tp)

\* _update_sim_trailing, lines 2553-2628: the SIM position after the trailing
\* update at price px with ATR a (0 = atr_wilder has too few candles); the
\* position's rules are cached since it was opened
update_sim_trailing(p, px, a) ==
    IF p = NoPos \/ px = 0 \/ p.sl = 0 \/ a <= 0 THEN p
    ELSE LET tick == RULES.tickSize
             R == Abs(p.entry - p.sl)
             move == (px - p.entry) * Sign(p.side)
             long == p.side = "LONG"
             even == IF long THEN Max(p.sl, p.entry) ELSE Min(p.sl, p.entry)
             trailE4 == IF move >= 2 * R
                        THEN IF long
                             THEN Max(even * 10000, px * 10000 - TRAIL_STEP_ATR_E2 * a * 100)
                             ELSE Min(even * 10000, px * 10000 + TRAIL_STEP_ATR_E2 * a * 100)
                        ELSE even * 10000
             onGrid == round_price_to_tick(trailE4, tick, IF long THEN -1 ELSE 1)
             new_sl == IF long
                       THEN IF onGrid >= px - tick
                            THEN round_price_to_tick((px - tick) * 10000, tick, -1)
                            ELSE onGrid
                       ELSE IF onGrid <= px + tick
                            THEN round_price_to_tick((px + tick) * 10000, tick, 1)
                            ELSE onGrid
         IN  IF R <= 0 \/ move < TRAIL_R_MULT_TRIGGER * R THEN p
             ELSE IF long /\ trailE4 <= p.sl * 10000 THEN p
             ELSE IF ~long /\ trailE4 >= p.sl * 10000 THEN p
             ELSE IF (long /\ new_sl <= p.sl) \/ (~long /\ new_sl >= p.sl) THEN p
             ELSE [p EXCEPT !.sl = new_sl]

\* current_roi_pct (lines 3287-3299) against the two thresholds of line 779;
\* both sides are scaled by 100 * entry
roi_hit(p, last) ==
    LET move == (last - p.entry) * Sign(p.side) * LEVERAGE * 10000
        fee == TAKER_FEE_PCT_E2 * 2 * p.entry
    IN  \/ move - fee <= ROI_EXIT_LOSS_PCT * 100 * p.entry
        \/ move - fee >= ROI_EXIT_PROFIT_PCT * 100 * p.entry

\* _roi_fallback_should_exit, lines 761-793: the verdict and the entry of
\* _ROI_HIT_SINCE afterwards; a position without opened_ts has age 0
roi_fallback_should_exit(p, last, since, t) ==
    LET age_sec == IF p.opened = 0 THEN 0 ELSE Max(0, (t - p.opened) \div 1000)
    IN  IF p = NoPos \/ last = 0 THEN [ok |-> FALSE, since |-> since]
        ELSE IF age_sec < ROI_MIN_AGE_SEC THEN [ok |-> FALSE, since |-> since]
        ELSE IF ~roi_hit(p, last) THEN [ok |-> FALSE, since |-> 0]
        ELSE IF since = 0 THEN [ok |-> FALSE, since |-> t]
        ELSE IF t - since >= ROI_CONFIRM_SEC * 1000 THEN [ok |-> TRUE, since |-> 0]
        ELSE [ok |-> FALSE, since |-> since]

\* lines 3793-3805: record the price and trail the simulated stop
on_agg_trade_price(t) ==
    /\ pc[t] = "idle"
    /\ \E s \in pool :
          /\ lastPrice' = [lastPrice EXCEPT ![s] = mkt[s]]
          /\ mf' = [mf EXCEPT ![t] = [MfIdle EXCEPT !.sym = s]]
          /\ pos' = [pos EXCEPT !["SIM"][s] = update_sim_trailing(@, mkt[s], atr[s])]
    /\ pc' = [pc EXCEPT ![t] = "at_roi_live"]
    /\ UNCHANGED <<inflight, orderLock, trained, lastCloseTs, cl, sy, po, hkf, uf>>
    /\ UNCH_clock /\ UNCH_venue /\ UNCH_env /\ UNCH_ledger /\ UNCH_ml /\ UNCH_risk /\ UNCH_sync
    /\ UNCHANGED <<pool, rulesCache, hkPrev, lastAiExit, nextId, proposals>>

\* lines 3806-3818: the ROI fallback, for LIVE and then for SIM; the handler
\* asks _close_too_soon itself (which stamps _LAST_CLOSE_TS) before it calls
\* close_position_one
on_agg_trade_roi(t) ==
    /\ pc[t] \in {"at_roi_live", "at_roi_sim"}
    /\ LET which == IF pc[t] = "at_roi_live" THEN "LIVE" ELSE "SIM"
           after == IF which = "LIVE" THEN "at_roi_sim" ELSE "at_tpsl"
           s == mf[t].sym
           p == pos[which][s]
           r == roi_fallback_should_exit(p, lastPrice[s], roiSince[which][s], now)
           soon == close_too_soon(lastCloseTs[which][s], now)
       IN  /\ roiSince' = [roiSince EXCEPT ![which][s] = r.since]
           /\ mf' = [mf EXCEPT ![t].due = IF r.ok THEN @ \cup {p.id} ELSE @]
           /\ lastCloseTs' = IF r.ok /\ ~soon
                             THEN [lastCloseTs EXCEPT ![which][s] = now]
                             ELSE lastCloseTs
           /\ IF r.ok /\ ~soon
              THEN CallClose(t, s, lastPrice[s], which, FALSE, "roi", after)
              ELSE pc' = [pc EXCEPT ![t] = after] /\ cl' = cl
    /\ UNCHANGED <<pos, inflight, orderLock, trained, sy, po, hkf, uf, streak, stopFlag>>
    /\ UNCH_clock /\ UNCH_venue /\ UNCH_env /\ UNCH_ledger /\ UNCH_ml /\ UNCH_dyn /\ UNCH_sync
    /\ UNCH_misc

\* line 3819: the simulated TP/SL check
on_agg_trade_tpsl(t) ==
    /\ pc[t] = "at_tpsl"
    /\ LET s == mf[t].sym
       IN  IF tp_sl_hit(pos["SIM"][s], lastPrice[s])
           THEN CallClose(t, s, lastPrice[s], "SIM", FALSE, "tpsl", "at_ai_sim")
           ELSE pc' = [pc EXCEPT ![t] = "at_ai_sim"] /\ cl' = cl
    /\ UNCHANGED <<pos, inflight, orderLock, trained, lastCloseTs>>
    /\ UNCH_clock /\ UNCH_venue /\ UNCH_env /\ UNCH_ledger /\ UNCH_ml /\ UNCH_risk /\ UNCH_sync
    /\ UNCH_frames /\ UNCH_misc

\* lines 3826-3849: now = utc_ms(); the SIM cooldown guard and AI exit
on_agg_trade_ai_sim(t) ==
    /\ pc[t] = "at_ai_sim"
    /\ LET s == mf[t].sym
           p == pos["SIM"][s]
           guard == p # NoPos /\ ~(now - lastAiExit["SIM"][s] < AI_EXIT_COOLDOWN_MS)
       IN  /\ mf' = [mf EXCEPT ![t].now = now]
           /\ lastAiExit' = IF guard THEN [lastAiExit EXCEPT !["SIM"][s] = now]
                            ELSE lastAiExit
           /\ IF guard /\ ai_should_exit_for(p, lastPrice[s])
              THEN CallClose(t, s, lastPrice[s], "SIM", FALSE, "ai", "at_ai_live")
              ELSE pc' = [pc EXCEPT ![t] = "at_ai_live"] /\ cl' = cl
    /\ UNCHANGED <<pos, inflight, orderLock, trained, lastCloseTs, sy, po, hkf, uf>>
    /\ UNCH_clock /\ UNCH_venue /\ UNCH_env /\ UNCH_ledger /\ UNCH_ml /\ UNCH_risk /\ UNCH_sync
    /\ UNCHANGED <<pool, lastPrice, rulesCache, hkPrev, nextId, proposals>>

\* lines 3851-3869: the LIVE guard; an exit first mirrors the close onto SIM
on_agg_trade_ai_live(t) ==
    /\ pc[t] = "at_ai_live"
    /\ LET s == mf[t].sym
           p == pos["LIVE"][s]
           guard == p # NoPos /\ ~(mf[t].now - lastAiExit["LIVE"][s] < AI_EXIT_COOLDOWN_MS)
       IN  /\ lastAiExit' = IF guard THEN [lastAiExit EXCEPT !["LIVE"][s] = mf[t].now]
                            ELSE lastAiExit
           /\ IF guard /\ ai_should_exit_for(p, lastPrice[s])
              THEN IF pos["SIM"][s] # NoPos
                   THEN CallClose(t, s, lastPrice[s], "SIM", FALSE, "mirror", "at_live_close")
                   ELSE CallClose(t, s, lastPrice[s], "LIVE", FALSE, "ai", "at_end")
              ELSE pc' = [pc EXCEPT ![t] = "at_end"] /\ cl' = cl
    /\ UNCHANGED <<pos, inflight, orderLock, trained, lastCloseTs, sy, po, hkf, uf, mf>>
    /\ UNCH_clock /\ UNCH_venue /\ UNCH_env /\ UNCH_ledger /\ UNCH_ml /\ UNCH_risk /\ UNCH_sync
    /\ UNCHANGED <<pool, lastPrice, rulesCache, hkPrev, nextId, proposals>>

\* lines 3863-3869: the LIVE close that follows the mirrored SIM close
on_agg_trade_live_close(t) ==
    /\ pc[t] = "at_live_close"
    /\ CallClose(t, mf[t].sym, lastPrice[mf[t].sym], "LIVE", FALSE, "ai", "at_end")
    /\ UNCHANGED <<pos, inflight, orderLock, trained, lastCloseTs>>
    /\ UNCH_clock /\ UNCH_venue /\ UNCH_env /\ UNCH_ledger /\ UNCH_ml /\ UNCH_risk /\ UNCH_sync
    /\ UNCH_frames /\ UNCH_misc

\* the handler returns to WSManager's on_message (lines 4326-4337)
on_agg_trade_end(t) ==
    /\ pc[t] = "at_end"
    /\ pc' = [pc EXCEPT ![t] = "idle"]
    /\ mf' = [mf EXCEPT ![t] = MfIdle]
    /\ UNCHANGED <<pos, inflight, orderLock, trained, lastCloseTs, cl, sy, po, hkf, uf>>
    /\ UNCH_clock /\ UNCH_venue /\ UNCH_env /\ UNCH_ledger /\ UNCH_ml /\ UNCH_risk /\ UNCH_sync /\ UNCH_misc

on_agg_trade(t) ==
    \/ on_agg_trade_price(t)
    \/ on_agg_trade_roi(t)
    \/ on_agg_trade_tpsl(t)
    \/ on_agg_trade_ai_sim(t)
    \/ on_agg_trade_ai_live(t)
    \/ on_agg_trade_live_close(t)
    \/ on_agg_trade_end(t)


\* ------------------------------------------------------------- place_order
\* the entry proposals generate_signal hands to place_order (on_kline, lines
\* 3592-3605); BadStop has its stop on the wrong side of the entry
GoLong == [side |-> "LONG", entry |-> ENTRY, sl |-> ENTRY - 100, tp |-> ENTRY + 200]
GoShort == [side |-> "SHORT", entry |-> ENTRY, sl |-> ENTRY + 100, tp |-> ENTRY - 200]
BadStop == [side |-> "LONG", entry |-> ENTRY, sl |-> ENTRY + 100, tp |-> ENTRY + 200]

\* the symbols the next proposal may be for: the pool's symbols start out
\* interchangeable, so the first proposal for a symbol not proposed before
\* takes the first such symbol of the pool
SymbolOrder == <<"s1", "s2", "s3">>
ProposalSymbols ==
    LET fresh == {i \in 1..Len(SymbolOrder) :
                    SymbolOrder[i] \in pool /\ SymbolOrder[i] \notin proposals.used}
    IN  (proposals.used \cap pool) \cup
        {SymbolOrder[i] : i \in {j \in fresh : \A k \in fresh : j <= k}}

\* the venue's position in s after a market order for signed quantity d fills
VenueAfterOrder(s, d) ==
    LET a == venue[s].amt
        b == a + d
    IN  IF b = 0 THEN NoVenuePos
        ELSE IF a = 0 \/ (a > 0) # (b > 0) THEN [amt |-> b, entry |-> mkt[s]]
        ELSE IF (a > 0) = (d > 0)
             THEN [amt |-> b,
                   entry |-> (Abs(a) * venue[s].entry + Abs(d) * mkt[s]) \div Abs(b)]
        ELSE [amt |-> b, entry |-> venue[s].entry]

\* can_trade_now, lines 2403-2409
can_trade_now(which) ==
    LET A == acct[which]
        base == IF A.daily_start_equity # 0 THEN A.daily_start_equity ELSE A.balance
    IN  /\ ~(A.daily_pnl * 100 >= base * DAILY_TARGET_PCT_E2)
        /\ ~(A.daily_pnl * 100 <= -(base * DAILY_MAX_LOSS_PCT_E2))

\* _can_trade_symbol, lines 3393-3400
can_trade_symbol(s) == ~(now < streak.until[s])

\* the state generate_signal requires before it proposes an entry in s (lines
\* 3408-3422): the daily limits, the loss-streak suspension, the position cap
\* and the one-position-per-symbol rule, all read without a lock
generate_signal(s) ==
    /\ can_trade_now(SHOW_ACCOUNT)
    /\ can_trade_symbol(s)
    /\ ~(pos_count_active(SHOW_ACCOUNT) >= MAX_CONCURRENT_POS)
    /\ ~(ONE_POS_PER_SYMBOL /\ get_pos(SHOW_ACCOUNT, s) # NoPos)

\* on_kline, lines 3592-3633: a closed candle on which generate_signal builds
\* a proposal and asks ML.should_take (lines 3481-3487, 3498-3503); a proposal
\* the model takes is handed to place_order with its probability, one it
\* turns down is dropped (the second path, lines 3607-3633, asks should_take
\* again and gets the same answer)
on_kline(t) ==
    /\ pc[t] = "idle"
    /\ proposals.todo # <<>>
    /\ \E s \in ProposalSymbols :
          /\ generate_signal(s)
          /\ proposals' = [todo |-> Tail(proposals.todo), used |-> proposals.used \cup {s}]
          /\ ml' = auto_adjust_threshold(ml, now)
          /\ \E p \in predict_proba(ml') :
                IF should_take(ml', p).take
                THEN /\ po' = [po EXCEPT ![t] =
                                 [PoIdle EXCEPT !.sym = s, !.side = Head(proposals.todo).side,
                                                !.entry = Head(proposals.todo).entry,
                                                !.sl = Head(proposals.todo).sl,
                                                !.tp = Head(proposals.todo).tp,
                                                !.ml_p = should_take(ml', p).p]]
                     /\ pc' = [pc EXCEPT ![t] = "po_lock"]
                ELSE UNCHANGED <<po, pc>>
    /\ UNCHANGED <<mlOpen, mlSamples>>
    /\ UNCHANGED <<pos, inflight, orderLock, trained, lastCloseTs, cl, sy, hkf, uf, mf>>
    /\ UNCH_clock /\ UNCH_venue /\ UNCH_env /\ UNCH_ledger /\ UNCH_risk /\ UNCH_sync
    /\ UNCHANGED <<pool, lastPrice, rulesCache, hkPrev, lastAiExit, nextId>>

\* place_order, lines 2889-2892: acquire ORDER_LOCK and run the reconciliation
\* pass inside the critical section
place_order_lock(t) ==
    /\ pc[t] = "po_lock"
    /\ order_lock_free
    /\ orderLock' = t
    /\ CallSync(t, "po_check")
    /\ UNCHANGED <<pos, inflight, trained, lastCloseTs, cl, po, hkf, uf, mf>>
    /\ UNCH_clock /\ UNCH_venue /\ UNCH_env /\ UNCH_ledger /\ UNCH_ml /\ UNCH_risk /\ UNCH_sync
    /\ UNCH_misc

\* lines 2896-2904: the two admission checks, still inside the critical section
place_order_check(t) ==
    /\ pc[t] = "po_check"
    /\ IF ONE_POS_PER_SYMBOL /\ symbol_is_blocked(po[t].sym, SHOW_ACCOUNT)
       THEN /\ po' = [po EXCEPT ![t].live = "blocked", ![t].sim = "blocked"]
            /\ orderLock' = NoThread
            /\ pc' = [pc EXCEPT ![t] = "po_return"]
       ELSE IF pos_count_including_inflight(SHOW_ACCOUNT) >= MAX_CONCURRENT_POS
       THEN /\ po' = [po EXCEPT ![t].live = "max_reached", ![t].sim = "max_reached"]
            /\ orderLock' = NoThread
            /\ pc' = [pc EXCEPT ![t] = "po_return"]
       ELSE /\ pc' = [pc EXCEPT ![t] = "po_reserve"]
            /\ UNCHANGED <<po, orderLock>>
    /\ UNCHANGED <<pos, inflight, trained, lastCloseTs, cl, sy, hkf, uf, mf>>
    /\ UNCH_clock /\ UNCH_venue /\ UNCH_env /\ UNCH_ledger /\ UNCH_ml /\ UNCH_risk /\ UNCH_sync /\ UNCH_misc

\* lines 2906-2908: OPEN_INFLIGHT.add(symbol), then the with block ends
place_order_reserve(t) ==
    /\ pc[t] = "po_reserve"
    /\ inflight' = IF EXECUTION_MODE \in {"LIVE", "BOTH"}
                   THEN inflight \cup {po[t].sym} ELSE inflight
    /\ orderLock' = NoThread
    /\ pc' = [pc EXCEPT ![t] = IF EXECUTION_MODE \in {"LIVE", "BOTH"}
                               THEN "po_live" ELSE "po_sim"]
    /\ UNCHANGED <<pos, trained, lastCloseTs, cl>>
    /\ UNCH_clock /\ UNCH_venue /\ UNCH_env /\ UNCH_ledger /\ UNCH_ml /\ UNCH_risk /\ UNCH_sync
    /\ UNCH_frames /\ UNCH_misc


\* place_order_one(..., "LIVE"), lines 2734-2793: the rules lookup (which
\* raises when the fetch fails), the gate, the admission-model filter, the
\* exit alignment and the sizing
place_order_one_live_prep(t) ==
    /\ pc[t] = "po_live"
    /\ LET f == po[t]
           g == pre_trade_gate(f.side, f.entry, f.sl, f.tp,
                               acct["LIVE"].balance, acct["LIVE"].balance)
           x == AlignedExits(f.side, f.entry, g.sl, g.tp)
           qty == order_qty(f.entry, x.sl, acct["LIVE"].balance, acct["LIVE"].balance,
                            per_trade_risk(ml, f.ml_p))
       IN  \/ \* _get_symbol_rules raises: the exception leaves place_order
              /\ f.sym \notin rulesCache
              /\ Fault
              /\ po' = [po EXCEPT ![t].live = "raised"]
              /\ pc' = [pc EXCEPT ![t] = "po_finally"]
              /\ UNCHANGED rulesCache
           \/ /\ rulesCache' = rulesCache \cup {f.sym}
              /\ IF ~g.ok
                 THEN /\ po' = [po EXCEPT ![t].live = "gate_block"]
                      /\ pc' = [pc EXCEPT ![t] = "po_sim"]
                      /\ UNCH_env
                 ELSE IF filtered_by_p(ml, f.ml_p)
                 THEN /\ po' = [po EXCEPT ![t].live = "filtered_by_p"]
                      /\ pc' = [pc EXCEPT ![t] = "po_sim"]
                      /\ UNCH_env
                 ELSE /\ po' = [po EXCEPT ![t].lsl = x.sl, ![t].ltp = x.tp,
                                          ![t].lqty = qty, ![t].lp = effective_ml_p(ml, f.ml_p)]
                      /\ pc' = [pc EXCEPT ![t] = "po_live_order"]
                      /\ UNCH_env
    /\ UNCHANGED <<pos, inflight, orderLock, trained, lastCloseTs, cl, sy, hkf, uf, mf>>
    /\ UNCH_clock /\ UNCH_venue /\ UNCH_ledger /\ UNCH_ml /\ UNCH_risk /\ UNCH_sync
    /\ UNCHANGED <<pool, lastPrice, hkPrev, lastAiExit, nextId, proposals>>

\* lines 2845-2850 with _live_open_and_exit_orders (2484-2516): the market
\* order is rejected, or fills, or fills while its response is lost
place_order_one_live_order(t) ==
    /\ pc[t] = "po_live_order"
    /\ LET f == po[t]
           s == f.sym
           d == Sign(f.side) * f.lqty
           filled == /\ venue' = [venue EXCEPT ![s] = VenueAfterOrder(s, d)]
                     /\ uq' = Push(uq, <<OrderEvent(s, IF f.side = "LONG" THEN "BUY" ELSE "SELL",
                                                    FALSE, mkt[s], 0),
                                         AccountEvent(s, VenueAfterOrder(s, d).amt,
                                                      VenueAfterOrder(s, d).entry)>>)
       IN  \/ /\ Fault
              /\ UNCHANGED <<venue, uq>>
              /\ po' = [po EXCEPT ![t].live = "order error"]
              /\ pc' = [pc EXCEPT ![t] = "po_sim"]
           \/ /\ Fault
              /\ filled
              /\ po' = [po EXCEPT ![t].live = "order error"]
              /\ pc' = [pc EXCEPT ![t] = "po_sim"]
           \/ /\ filled
              /\ UNCH_env
              /\ po' = po
              /\ pc' = [pc EXCEPT ![t] = "po_live_set"]
    /\ UNCHANGED <<pos, inflight, orderLock, trained, lastCloseTs, cl, sy, hkf, uf, mf,
                   mkt, forcePending>>
    /\ UNCH_clock /\ UNCH_ledger /\ UNCH_ml /\ UNCH_risk /\ UNCH_sync /\ UNCH_misc

\* lines 2851-2868: _set_pos(st, "LIVE", {...}) and ML.record_open
place_order_one_live_set(t) ==
    /\ pc[t] = "po_live_set"
    /\ nextId <= env.ids
    /\ LET f == po[t]
       IN  /\ pos' = [pos EXCEPT !["LIVE"][f.sym] =
                        [side |-> f.side, qty |-> f.lqty, entry |-> f.entry,
                         sl |-> f.lsl, tp |-> f.ltp, risk_R |-> Abs(f.entry - f.lsl),
                         uid |-> FreshUid(nextId), feat |-> TRUE, opened |-> 0,
                         id |-> nextId]]
           /\ mlOpen' = IF ml_ok("LIVE") THEN mlOpen \cup {<<"LIVE", f.sym>>} ELSE mlOpen
           /\ ml' = record_open_prob(ml, "LIVE", f.sym, f.lp)
    /\ nextId' = nextId + 1
    /\ po' = [po EXCEPT ![t].live = "live"]
    /\ pc' = [pc EXCEPT ![t] = "po_sim"]
    /\ UNCHANGED <<inflight, orderLock, trained, lastCloseTs, cl, sy, hkf, uf, mf, mlSamples>>
    /\ UNCH_clock /\ UNCH_venue /\ UNCH_env /\ UNCH_ledger /\ UNCH_sync /\ UNCH_risk
    /\ UNCHANGED <<pool, lastPrice, rulesCache, hkPrev, lastAiExit, proposals>>

\* place_order_one(..., "SIM"), lines 2734-2842, with _local_open (2455-2482)
place_order_one_sim(t) ==
    /\ pc[t] = "po_sim"
    /\ LET f == po[t]
           g == pre_trade_gate(f.side, f.entry, f.sl, f.tp,
                               acct["SIM"].balance, acct["SIM"].balance)
           x == AlignedExits(f.side, f.entry, g.sl, g.tp)
           qty == order_qty(f.entry, x.sl, acct["SIM"].balance, acct["SIM"].balance,
                            per_trade_risk(ml, f.ml_p))
       IN  IF EXECUTION_MODE \notin {"SIM", "BOTH"}
           THEN /\ pc' = [pc EXCEPT ![t] = "po_finally"]
                /\ UNCHANGED <<po, pos, nextId, rulesCache, env>>
           ELSE \/ /\ f.sym \notin rulesCache
                   /\ Fault
                   /\ po' = [po EXCEPT ![t].sim = "raised"]
                   /\ pc' = [pc EXCEPT ![t] = "po_finally"]
                   /\ UNCHANGED <<pos, nextId, rulesCache>>
                \/ /\ rulesCache' = rulesCache \cup {f.sym}
                   /\ pc' = [pc EXCEPT ![t] = "po_finally"]
                   /\ IF ~g.ok
                      THEN /\ po' = [po EXCEPT ![t].sim = "gate_block"]
                           /\ UNCHANGED <<pos, nextId, env>>
                      ELSE IF filtered_by_p(ml, f.ml_p)
                      THEN /\ po' = [po EXCEPT ![t].sim = "filtered_by_p"]
                           /\ UNCHANGED <<pos, nextId, env>>
                      ELSE /\ nextId <= env.ids
                           /\ UNCH_env
                           /\ nextId' = nextId + 1
                           /\ po' = [po EXCEPT ![t].sim = "local"]
                           /\ pos' = [pos EXCEPT !["SIM"][f.sym] =
                                        [side |-> f.side, qty |-> qty, entry |-> f.entry,
                                         sl |-> x.sl, tp |-> x.tp,
                                         risk_R |-> Abs(f.entry - x.sl),
                                         uid |-> FreshUid(nextId), feat |-> TRUE,
                                         opened |-> now, id |-> nextId]]
    /\ mlOpen' = IF po'[t].sim = "local" /\ ml_ok("SIM")      \* ML.record_open, line 2843
                 THEN mlOpen \cup {<<"SIM", po[t].sym>>} ELSE mlOpen
    /\ ml' = IF po'[t].sim = "local"
             THEN record_open_prob(ml, "SIM", po[t].sym, effective_ml_p(ml, po[t].ml_p))
             ELSE ml
    /\ po'[t].sim = "local" => store.lock = NoThread
    /\ store' = IF po'[t].sim = "local"      \* persist_sim_state(force=True), line 2478
                 THEN persist_forced(acct["SIM"], trades["SIM"], pos'["SIM"])
                 ELSE store
    /\ UNCHANGED <<inflight, orderLock, trained, lastCloseTs, cl, sy, hkf, uf, mf, mlSamples>>
    /\ UNCHANGED <<acct, trades>>
    /\ UNCH_clock /\ UNCH_venue /\ UNCH_sync /\ UNCH_risk
    /\ UNCHANGED <<pool, lastPrice, hkPrev, lastAiExit, proposals>>

\* lines 2923-2927: the finally block reads whether a local live position exists
place_order_finally(t) ==
    /\ pc[t] = "po_finally"
    /\ pc' = [pc EXCEPT ![t] =
                IF EXECUTION_MODE \in {"LIVE", "BOTH"} /\ pos["LIVE"][po[t].sym] = NoPos
                THEN "po_release" ELSE "po_return"]
    /\ UNCHANGED <<pos, inflight, orderLock, trained, lastCloseTs, cl>>
    /\ UNCH_clock /\ UNCH_venue /\ UNCH_env /\ UNCH_ledger /\ UNCH_ml /\ UNCH_risk /\ UNCH_sync
    /\ UNCH_frames /\ UNCH_misc

\* lines 2928-2930: with ORDER_LOCK: OPEN_INFLIGHT.discard(symbol)
place_order_release(t) ==
    /\ pc[t] = "po_release"
    /\ order_lock_free
    /\ inflight' = inflight \ {po[t].sym}
    /\ pc' = [pc EXCEPT ![t] = "po_return"]
    /\ UNCHANGED <<pos, orderLock, trained, lastCloseTs, cl>>
    /\ UNCH_clock /\ UNCH_venue /\ UNCH_env /\ UNCH_ledger /\ UNCH_ml /\ UNCH_risk /\ UNCH_sync
    /\ UNCH_frames /\ UNCH_misc

\* place_order has returned (or raised): po[t] holds what the caller got back
place_order_return(t) ==
    /\ pc[t] = "po_return"
    /\ pc' = [pc EXCEPT ![t] = "idle"]
    /\ po' = [po EXCEPT ![t] = PoIdle]
    /\ UNCHANGED <<pos, inflight, orderLock, trained, lastCloseTs, cl, sy, hkf, uf, mf>>
    /\ UNCH_clock /\ UNCH_venue /\ UNCH_env /\ UNCH_ledger /\ UNCH_ml /\ UNCH_risk /\ UNCH_sync /\ UNCH_misc

place_order(t) ==
    \/ place_order_lock(t)
    \/ place_order_check(t)
    \/ place_order_reserve(t)
    \/ place_order_one_live_prep(t)
    \/ place_order_one_live_order(t)
    \/ place_order_one_live_set(t)
    \/ place_order_one_sim(t)
    \/ place_order_finally(t)
    \/ place_order_release(t)
    \/ place_order_return(t)


\* ------------------------------------------------------------ the program
\* WSManager._worker threads (a restart whose join times out leaves the old
\* worker alive beside the new one, lines 4346-4360)
MarketThreads == {"mkt1", "mkt2"}

UserStep(t) ==
    \/ user_stream_recv(t)
    \/ handle_order_trade_update(t)
    \/ handle_account_update(t)

MaxTicks == 2          \* clock advances
MaxFills == 1          \* venue-side exits
MaxMoves == 1          \* price moves
MaxIds == 3            \* position objects
MaxFaults == 1         \* injected failures

Init == InitWith(Symbols, Budget(MaxTicks, <<GoLong, GoShort, BadStop>>,
                                 MaxFills, MaxMoves, MaxIds, MaxFaults))

Next ==
    \/ Tick
    \/ PriceMove
    \/ VenueFill
    \/ \E s \in Symbols : reconcile_and_force_close(s)
    \/ \E t \in Threads : close_position_one(t)
    \/ \E t \in Threads : sync_live_positions_periodic(t)
    \/ \E t \in MarketThreads : on_kline(t)
    \/ \E t \in MarketThreads : place_order(t)
    \/ \E t \in MarketThreads : on_agg_trade(t)
    \/ pos_sync_worker("sync")
    \/ housekeeping_worker("hk")
    \/ UserStep("uws")

Spec == Init /\ [][Next]_vars

\* ---------------------------------------------------------------- settlement
\* one symbol in the pool and one market worker
SettleTicks == 1
SettleFills == 1
SettleIds == 1
SettleFaults == 1
SettleThreads == {"mkt1", "sync", "uws"}

InitSettle ==
    InitWith({"s1"}, Budget(SettleTicks, <<GoLong>>, SettleFills, 0, SettleIds, SettleFaults))

NextSettle ==
    \/ Tick
    \/ VenueFill
    \/ \E s \in Symbols : reconcile_and_force_close(s)
    \/ \E t \in SettleThreads : close_position_one(t)
    \/ \E t \in SettleThreads : sync_live_positions_periodic(t)
    \/ on_kline("mkt1")
    \/ place_order("mkt1")
    \/ pos_sync_worker("sync")
    \/ UserStep("uws")

SpecSettle == InitSettle /\ [][NextSettle]_vars

\* a call that got past the debounce with a position in hand and has not returned
Settling(t) ==
    pc[t] \in {"cp_dedup", "cp_venue", "cp_book", "cp_clear", "cp_unflight", "cp_train"}

\* the triggers that act on what the venue reports
ReconSources == {"sync", "hk", "order", "account"}

\* C1: whatever the interleaving and timing of the close_position_one calls on
\* an open position, the position is settled once: an account's ledger holds
\* at most one trade record per position object, and the account's total_pnl
\* is the sum of one net PnL per position object.
C1_ExactlyOneSettlement ==
    \A a \in Accounts : \A i, j \in DOMAIN trades[a] :
        trades[a][i].id = trades[a][j].id => i = j

\* C2: a close whose position uid is already in the dedup set only cleans up:
\* no trade record is ever written under a uid minted for a position whose
\* own uid was found in _TRAINED_POS_UIDS, and no call carrying such a uid is
\* on its way to the ledger.
C2_DuplicateIsCleanupOnly ==
    /\ \A a \in Accounts : \A i \in DOMAIN trades[a] : trades[a][i].pos_uid.k # "rekeyed"
    /\ \A t \in Threads : Settling(t) => cl[t].uid.k # "rekeyed"

\* C3: a close_position_one call that reads the clock less than
\* CLOSE_DEBOUNCE_MS after the last accepted call for the same (account,
\* symbol) is ignored: it goes to the debounce return and that return changes
\* no position, ledger, dedup set, debounce stamp or training sample; the
\* check-and-set is atomic, so no two calls in flight past the debounce, and no
\* two trade records, of one (account, symbol) are less than CLOSE_DEBOUNCE_MS
\* apart.
C3_DebounceIgnoresSecondClose ==
    /\ [](\A a \in Accounts : \A i, j \in DOMAIN trades[a] :
            (i # j /\ trades[a][i].symbol = trades[a][j].symbol)
                => Abs(trades[a][i].ts - trades[a][j].ts) >= CLOSE_DEBOUNCE_MS)
    /\ [](\A t, u \in Threads :
            (t # u /\ Settling(t) /\ Settling(u)
                 /\ cl[t].which = cl[u].which /\ cl[t].sym = cl[u].sym)
                => Abs(cl[t].ts - cl[u].ts) >= CLOSE_DEBOUNCE_MS)
    /\ [][\A t \in Threads :
            /\ (/\ pc[t] = "cp_debounce" /\ pc'[t] # "cp_debounce"
                /\ cl[t].ts - lastCloseTs[cl[t].which][cl[t].sym] < CLOSE_DEBOUNCE_MS)
                  => /\ pc'[t] = "cp_debounced"
                     /\ UNCHANGED <<pos, acct, trades, trained, lastCloseTs, mlSamples>>
            /\ (pc[t] = "cp_debounced" /\ pc'[t] # "cp_debounced")
                  => /\ pc'[t] = cl[t].ret
                     /\ UNCHANGED <<pos, acct, trades, trained, lastCloseTs, mlSamples>>]_vars

\* a second close of a position is being ignored while the position still
\* stands, and the first close has already written that position's trade record
C3_Witness ==
    \E t \in Threads :
        /\ pc[t] = "cp_debounced"
        /\ cl[t].p # NoPos
        /\ pos[cl[t].which][cl[t].sym] = cl[t].p
        /\ \E i \in DOMAIN trades[cl[t].which] : trades[cl[t].which][i].id = cl[t].p.id

\* C10: a local live position the venue reports flat is settled once by the
\* reconciliation triggers, always with skip_exchange set, and yields one
\* training sample for that position object.
C10_ReconciliationSettlesOnce ==
    /\ \A i \in DOMAIN trades["LIVE"] :
          trades["LIVE"][i].src \in ReconSources => trades["LIVE"][i].skip
    /\ \A i, j \in DOMAIN trades["LIVE"] :
          (/\ trades["LIVE"][i].src \in ReconSources
           /\ trades["LIVE"][j].src \in ReconSources
           /\ trades["LIVE"][i].id = trades["LIVE"][j].id) => i = j
    /\ \A i, j \in DOMAIN mlSamples :
          (/\ mlSamples[i].which = "LIVE" /\ mlSamples[j].which = "LIVE"
           /\ mlSamples[i].id = mlSamples[j].id) => i = j


\* ----------------------------------------------------------------- admission
\* the whole pool, one market worker proposing thrice, the user stream
AdmitTicks == 1
AdmitFills == 1
AdmitIds == 4
AdmitThreads == {"mkt1", "uws"}

InitAdmit ==
    InitWith(Symbols, Budget(AdmitTicks, <<GoLong, GoShort, BadStop>>, AdmitFills, 0, AdmitIds, 0))

NextAdmit ==
    \/ Tick
    \/ VenueFill
    \/ \E s \in Symbols : reconcile_and_force_close(s)
    \/ \E t \in AdmitThreads : close_position_one(t)
    \/ \E t \in AdmitThreads : sync_live_positions_periodic(t)
    \/ on_kline("mkt1")
    \/ place_order("mkt1")
    \/ UserStep("uws")

SpecAdmit == InitAdmit /\ [][NextAdmit]_vars

\* results place_order_one gives for a live placement that did not go through
\* ("raised": _get_symbol_rules raised and nothing was returned)
LiveFailures == {"gate_block", "filtered_by_p", "order error", "raised"}

\* C4: an open writes a slot only while the slot is empty: _local_open for the
\* Sim account never replaces a Sim position that is still open.
C4_OpenOnlyIntoEmptySlot ==
    [][\A t \in MarketThreads :
         (pc[t] = "po_sim" /\ pc'[t] = "po_finally" /\ po'[t].sim = "local")
             => pos["SIM"][po[t].sym] = NoPos]_vars

\* C5: for each account the open positions plus the in-flight markers never
\* number more than MAX_CONCURRENT_POS, and no symbol counts more than once
\* (a position and a marker together) while ONE_POS_PER_SYMBOL is set.
C5_CapIncludingInFlight ==
    /\ \A a \in Accounts :
          Cardinality({s \in Symbols : pos[a][s] # NoPos})
            + (IF a = "LIVE" THEN Cardinality(inflight) ELSE 0) <= MAX_CONCURRENT_POS
    /\ ONE_POS_PER_SYMBOL =>
          \A s \in Symbols : ~(pos["LIVE"][s] # NoPos /\ s \in inflight)

\* C7: a successful live placement stores a position with a fresh pos_uid,
\* risk_R = |entry - sl| and the admission features, and when place_order
\* returns after it the symbol has left OPEN_INFLIGHT.
C7_SuccessStoresAndReleases ==
    [][\A t \in MarketThreads :
         /\ (pc[t] = "po_live_set" /\ pc'[t] = "po_sim")
               => LET p == pos'["LIVE"][po[t].sym]
                  IN  /\ p.uid = FreshUid(p.id)
                      /\ \A a \in Accounts : \A s \in Symbols :
                            pos[a][s] # NoPos => pos[a][s].uid # p.uid
                      /\ p.uid \notin trained
                      /\ p.risk_R = Abs(p.entry - p.sl)
                      /\ p.feat
         /\ (pc[t] # "po_return" /\ pc'[t] = "po_return" /\ po'[t].live = "live")
               => po[t].sym \notin inflight']_vars

\* C8: when the live placement fails (gate rejection, model filter, rules
\* fetch error, order error), then once place_order is over the symbol is not
\* in OPEN_INFLIGHT, the live slot holds no position for it and the caller has
\* been handed the reason as place_order's result.
C8_LiveFailureCleansUp ==
    \A t \in MarketThreads :
        (pc[t] = "po_return" /\ po[t].live \in LiveFailures)
            => /\ po[t].sym \notin inflight
               /\ pos["LIVE"][po[t].sym] = NoPos
               /\ po[t].live # "raised"

\* C9: in BOTH mode a live-side failure or rejection never keeps the Sim side
\* from being attempted: whenever place_order ends without a live open, the Sim
\* placement has run (it opened, or was turned down by its own gate or filter).
C9_LiveFailureNeverBlocksSim ==
    \A t \in MarketThreads :
        (pc[t] = "po_return" /\ po[t].live # "live")
            => po[t].sim \in {"local", "gate_block", "filtered_by_p"}


\* ------------------------------------------------------- concurrent admission
\* two market workers proposing at once beside the user stream
RaceTicks == 1
RaceFills == 1
RaceIds == 2
RaceThreads == {"mkt1", "mkt2", "uws"}

InitRace ==
    InitWith(Symbols, Budget(RaceTicks, <<GoLong, GoShort>>, RaceFills, 0, RaceIds, 0))

NextRace ==
    \/ Tick
    \/ VenueFill
    \/ \E s \in Symbols : reconcile_and_force_close(s)
    \/ \E t \in RaceThreads : close_position_one(t)
    \/ \E t \in RaceThreads : sync_live_positions_periodic(t)
    \/ \E t \in MarketThreads : on_kline(t)
    \/ \E t \in MarketThreads : place_order(t)
    \/ UserStep("uws")

SpecRace == InitRace /\ [][NextRace]_vars

\* inside place_order's ORDER_LOCK section (the nested reconciliation included)
InAdmission(t) ==
    \/ pc[t] \in {"po_check", "po_reserve"}
    \/ pc[t] \in {"sy_start", "sy_fetch", "sy_loop", "sy_unflight"} /\ sy[t].ret = "po_check"

\* admitted, with the live order not yet recorded as a local position
Placing(t) == pc[t] \in {"po_live", "po_live_order", "po_live_set"}

\* C6: the admission checks and the reservation run in one ORDER_LOCK section
\* held by one proposal at a time, so of two concurrent proposals at most one
\* is admitted for a symbol and the admitted ones never outnumber the slots
\* that were free.
C6_AdmissionAtomic ==
    /\ \A t, u \in MarketThreads :
          (t # u /\ InAdmission(t)) => (orderLock = t /\ ~InAdmission(u))
    /\ \A t, u \in MarketThreads :
          (t # u /\ Placing(t) /\ Placing(u)) => po[t].sym # po[u].sym
    /\ Cardinality({s \in Symbols : pos["LIVE"][s] # NoPos})
          + Cardinality({t \in MarketThreads : Placing(t)}) <= MAX_CONCURRENT_POS

\* ------------------------------------------------------------ reconciliation
\* the prices the venue has reported to thread t for symbol s in the pass that
\* is making a close request: the markPrice of this pass's positionRisk answer
\* (sync), the markPrice of this pass's position list (housekeeping); the
\* ACCOUNT_UPDATE handler reads no price from the venue at all
PassPrices(t, s, src) ==
    IF src = "sync" THEN {sy[t].risks[s].mark} \ {0}
    ELSE IF src = "hk" THEN {hkf.cur[s]} \ {0}
    ELSE {}

\* C11: every close requested by a reconciliation source (the periodic sync,
\* the housekeeping worker, the account-update handler) is requested at a price
\* the venue reported in that same pass, never at st.last_price, the local
\* entry or a mark price kept from an earlier poll.
C11_ReconciliationUsesPassPrice ==
    [][\A t \in Threads :
         (/\ pc[t] # "cp_read" /\ pc'[t] = "cp_read"
          /\ cl'[t].src \in {"sync", "hk", "account"})
         => cl'[t].px \in PassPrices(t, cl'[t].sym, cl'[t].src)]_vars

\* the local live position of s carries the venue's side, size and entry price
MatchesVenue(p, r) ==
    /\ p # NoPos
    /\ p.side = (IF r.amt > 0 THEN "LONG" ELSE "SHORT")
    /\ p.qty = Abs(r.amt)
    /\ p.entry = r.entry

\* C12: when a reconciliation pass has dealt with a symbol the venue holds
\* (non-zero positionAmt), the local live position exists with the venue's
\* side, qty and entry, and an open training sample is registered for it.
C12_AdoptedAndRegistered ==
    [][\A t \in Threads :
         (pc[t] = "sy_loop" /\ pc'[t] = "sy_unflight")
         => /\ MatchesVenue(pos'["LIVE"][sy'[t].cur], sy[t].risks[sy'[t].cur])
            /\ <<"LIVE", sy'[t].cur>> \in mlOpen']_vars

\* --------------------------------------------------------------------- drift
\* one symbol, one market worker that places the order and handles the trade
\* stream, and the sync thread; the market may move away from the proposal's
\* entry before the order fills, and back
DriftMoves == 2
DriftIds == 3
DriftThreads == {"mkt1", "sync"}

InitDrift ==
    InitWith({"s1"}, Budget(0, <<GoLong>>, 0, DriftMoves, DriftIds, 0))

NextDrift ==
    \/ PriceMove
    \/ \E s \in Symbols : reconcile_and_force_close(s)
    \/ \E t \in DriftThreads : close_position_one(t)
    \/ \E t \in DriftThreads : sync_live_positions_periodic(t)
    \/ on_kline("mkt1")
    \/ place_order("mkt1")
    \/ on_agg_trade("mkt1")
    \/ pos_sync_worker("sync")

SpecDrift == InitDrift /\ [][NextDrift]_vars

\* a step of place_order_one that writes a position into a slot
Opening == \E t \in MarketThreads : pc[t] \in {"po_live_set", "po_sim"} /\ pc'[t] # pc[t]

\* C13: risk_R is frozen at open: while a slot stays occupied, no step other
\* than an open changes the stored risk distance (not trailing, not exit
\* retargeting, not reconciliation), so the risk_R a settlement copies into the
\* trade record is the one written at open.
C13_RiskFrozenAtOpen ==
    [][\A a \in Accounts : \A s \in Symbols :
         (pos[a][s] # NoPos /\ pos'[a][s] # NoPos /\ ~Opening)
         => pos'[a][s].risk_R = pos[a][s].risk_R]_vars

\* ------------------------------------------------------------------ back-off
\* the clock over the stretches a back-off window lasts: one throttle period,
\* or one window of the maximal length
LapseSteps == {POS_SYNC_MS, NET_BACKOFF_MAX_MS}

Lapse ==
    /\ ticks > 0
    /\ \E d \in LapseSteps : now' = now + d
    /\ ticks' = ticks - 1
    /\ UNCHANGED <<pos, inflight, orderLock, trained, lastCloseTs, pc, cl>>
    /\ UNCH_venue /\ UNCH_env /\ UNCH_ledger /\ UNCH_ml /\ UNCH_risk /\ UNCH_sync /\ UNCH_frames /\ UNCH_misc

\* the sync thread polls beside a market worker whose place_order runs the
\* same pass; the positionRisk request may fail again and again
BackoffLapses == 4
BackoffFaults == 5
BackoffIds == 2
BackoffThreads == {"mkt1", "sync"}

InitBackoff ==
    InitWith({"s1"}, Budget(BackoffLapses, <<GoLong>>, 0, 0, BackoffIds, BackoffFaults))

NextBackoff ==
    \/ Lapse
    \/ \E t \in BackoffThreads : sync_live_positions_periodic(t)
    \/ on_kline("mkt1")
    \/ place_order("mkt1")
    \/ pos_sync_worker("sync")

SpecBackoff == InitBackoff /\ [][NextBackoff]_vars

\* 60 s, then x1.7 per consecutive failure, capped at 5 min (in ms)
BackoffWindows == <<60000, 102000, 173400, 294780, 300000>>

\* thread t's positionRisk request is answered or fails in this step
Polls(t) == pc[t] = "sy_fetch" /\ pc'[t] # "sy_fetch"

\* C14: no poll is made inside a back-off window; the k-th consecutive
\* transport failure opens a window of 60 s x 1.7^(k-1), capped at 5 min, so
\* the windows never shrink; a successful poll clears the window and makes
\* the next one 60 s again.
C14_BackoffWindows ==
    [][\A t \in Threads :
         Polls(t) =>
           /\ ~(now < netBackoffUntil)
           /\ IF pc'[t] = "sy_loop"
              THEN netBackoffUntil' = 0 /\ netBackoffStep' = BackoffWindows[1]
              ELSE \E k \in DOMAIN BackoffWindows :
                     /\ netBackoffUntil' - sy[t].t0 = BackoffWindows[k]
                     /\ netBackoffStep' =
                          BackoffWindows[Min(k + 1, Len(BackoffWindows))]
                     /\ netBackoffStep' >= netBackoffStep]_vars

\* -------------------------------------------------------------------- ledger
\* thread t books a settlement in this step
Books(t) == pc[t] = "cp_book" /\ pc'[t] = "cp_clear"

\* C15: a settlement adds its net PnL to the account's total_pnl and, for SIM
\* only, to balance and daily_pnl; no step of the settlement or of the event
\* handlers around it changes the LIVE account's balance or daily_pnl (the
\* balance sync, which alone may, is not among the steps).
C15_LiveBalanceUntouched ==
    [][/\ acct'["LIVE"].balance = acct["LIVE"].balance
       /\ acct'["LIVE"].daily_pnl = acct["LIVE"].daily_pnl
       /\ \A t \in Threads :
            Books(t) =>
              LET a == cl[t].which
                  net == cl'[t].net
              IN  /\ acct'[a].total_pnl = acct[a].total_pnl + net
                  /\ a = "SIM" => /\ acct'[a].balance = acct[a].balance + net
                                  /\ acct'[a].daily_pnl = acct[a].daily_pnl + net]_vars

\* --------------------------------------------------------------- persistence
\* persist_sim_state(force=False), lines 1605-1611: the autosave throttle, then
\* data = snapshot_sim_state() under _state_lock
persist_snapshot(t) ==
    /\ pc[t] = "idle"
    /\ ~(store.last # 0 /\ now - store.last < AUTOSAVE_MS)   \* 0.0 on an epoch clock
    /\ store.lock = NoThread
    /\ store' = [store EXCEPT
                   !.data = snapshot_sim_state(acct["SIM"], trades["SIM"], pos["SIM"]),
                   !.at = now]
    /\ pc' = [pc EXCEPT ![t] = "ps_tmp"]
    /\ UNCHANGED <<pos, inflight, orderLock, trained, lastCloseTs, cl, acct, trades>>
    /\ UNCH_clock /\ UNCH_venue /\ UNCH_env /\ UNCH_ml /\ UNCH_risk /\ UNCH_sync /\ UNCH_frames /\ UNCH_misc

\* lines 1618-1625: take _state_lock and create the temp file beside STATE_PATH
persist_tmp(t) ==
    /\ pc[t] = "ps_tmp"
    /\ store.lock = NoThread
    /\ store' = [store EXCEPT !.lock = t, !.tmp = CutFile(store.data)]
    /\ pc' = [pc EXCEPT ![t] = "ps_dump"]
    /\ UNCHANGED <<pos, inflight, orderLock, trained, lastCloseTs, cl, acct, trades>>
    /\ UNCH_clock /\ UNCH_venue /\ UNCH_env /\ UNCH_ml /\ UNCH_risk /\ UNCH_sync /\ UNCH_frames /\ UNCH_misc

\* lines 1626-1629: json.dump, flush, fsync; an error here ends the call in
\* the outer except (line 1652) with the lock released
persist_dump(t) ==
    /\ pc[t] = "ps_dump"
    /\ \/ /\ store' = [store EXCEPT !.tmp = WholeFile(store.data)]
          /\ pc' = [pc EXCEPT ![t] = "ps_replace"]
          /\ UNCH_env
       \/ /\ Fault
          /\ store' = [store EXCEPT !.lock = NoThread]
          /\ pc' = [pc EXCEPT ![t] = "idle"]
    /\ UNCHANGED <<pos, inflight, orderLock, trained, lastCloseTs, cl, acct, trades>>
    /\ UNCH_clock /\ UNCH_venue /\ UNCH_ml /\ UNCH_risk /\ UNCH_sync /\ UNCH_frames /\ UNCH_misc

\* lines 1631-1633: os.replace(tmp_path, STATE_PATH), or its failure
persist_replace(t) ==
    /\ pc[t] = "ps_replace"
    /\ \/ /\ store' = [store EXCEPT !.file = store.tmp, !.tmp = NoFile,
                                    !.lock = NoThread, !.last = store.at]
          /\ pc' = [pc EXCEPT ![t] = "idle"]
          /\ UNCH_env
       \/ /\ Fault
          /\ store' = store
          /\ pc' = [pc EXCEPT ![t] = "ps_open"]
    /\ UNCHANGED <<pos, inflight, orderLock, trained, lastCloseTs, cl, acct, trades>>
    /\ UNCH_clock /\ UNCH_venue /\ UNCH_ml /\ UNCH_risk /\ UNCH_sync /\ UNCH_frames /\ UNCH_misc

\* line 1636: open(STATE_PATH, "w") truncates the state file
persist_fallback_open(t) ==
    /\ pc[t] = "ps_open"
    /\ store' = [store EXCEPT !.file = CutFile(store.data)]
    /\ pc' = [pc EXCEPT ![t] = "ps_write"]
    /\ UNCHANGED <<pos, inflight, orderLock, trained, lastCloseTs, cl, acct, trades>>
    /\ UNCH_clock /\ UNCH_venue /\ UNCH_env /\ UNCH_ml /\ UNCH_risk /\ UNCH_sync /\ UNCH_frames /\ UNCH_misc

\* lines 1637-1650: json.dump into the state file and removal of the temp
\* file, or the hard failure that is only logged
persist_fallback_write(t) ==
    /\ pc[t] = "ps_write"
    /\ \/ /\ store' = [store EXCEPT !.file = WholeFile(store.data), !.tmp = NoFile,
                                    !.lock = NoThread, !.last = store.at]
          /\ UNCH_env
       \/ /\ Fault
          /\ store' = [store EXCEPT !.lock = NoThread, !.last = store.at]
    /\ pc' = [pc EXCEPT ![t] = "idle"]
    /\ UNCHANGED <<pos, inflight, orderLock, trained, lastCloseTs, cl, acct, trades>>
    /\ UNCH_clock /\ UNCH_venue /\ UNCH_ml /\ UNCH_risk /\ UNCH_sync /\ UNCH_frames /\ UNCH_misc

\* autosave_state_worker: while True: persist_sim_state(force=False); sleep
autosave_state_worker(t) ==
    \/ persist_snapshot(t)
    \/ persist_tmp(t)
    \/ persist_dump(t)
    \/ persist_replace(t)
    \/ persist_fallback_open(t)
    \/ persist_fallback_write(t)

\* the process dies and is started again: the memory is new, the files and
\* the world outside stay; main starts the autosave worker before it calls
\* restore_sim_state (lines 4664 and 4669) and the other workers after it
Restart ==
    /\ store.done
    /\ Fault
    /\ pos' = [a \in Accounts |-> [s \in Symbols |-> NoPos]]
    /\ lastPrice' = [s \in Symbols |-> 0]
    /\ inflight' = {}
    /\ orderLock' = NoThread
    /\ trained' = {}
    /\ lastCloseTs' = [a \in Accounts |-> [s \in Symbols |-> 0]]
    /\ acct' = [a \in Accounts |->
                  [balance |-> START_BALANCE, daily_start_equity |-> 0,
                   daily_pnl |-> 0, total_pnl |-> 0]]
    /\ trades' = [a \in Accounts |-> <<>>]
    /\ mlOpen' = {}
    /\ ml' = MLManager(ml.enabled, ml.saved.threshold, ml.saved.pos_seen,
                       ml.saved.neg_seen, ml.saved.n_seen, <<>>)
    /\ rulesCache' = {}
    /\ hkPrev' = [s \in Symbols |-> 0]
    /\ lastPosSync' = 0
    /\ netBackoffUntil' = 0 /\ netBackoffStep' = NET_BACKOFF_BASE_MS
    /\ lastAiExit' = [a \in Accounts |-> [s \in Symbols |-> 0]]
    /\ forcePending' = {}
    /\ uq' = <<>>
    /\ pc' = [t \in Threads |-> IF t = "save" THEN "idle" ELSE "boot"]
    /\ cl' = [t \in Threads |-> ClIdle]
    /\ sy' = [t \in Threads |-> SyIdle]
    /\ po' = [t \in Threads |-> PoIdle]
    /\ hkf' = HkIdle
    /\ uf' = UfIdle
    /\ mf' = [t \in Threads |-> MfIdle]
    /\ store' = [StoreInit EXCEPT !.file = store.file, !.tmp = store.tmp, !.done = FALSE,
                                  !.csv = store.csv]
    /\ streak' = NoStreak
    /\ stopFlag' = FALSE
    /\ roiSince' = [a \in Accounts |-> [s \in Symbols |-> 0]]
    /\ dyn' = DynIdle
    /\ UNCHANGED <<now, ticks, pool, mlSamples, venue, mkt, nextId, proposals, atr, exits>>

\* restore_sim_state, lines 1658-1712: once per process; a missing or
\* unreadable file leaves the fresh account as it is
restore_sim_state ==
    /\ ~store.done
    /\ LET ids == [s \in Symbols |->
                     nextId + (CHOOSE i \in DOMAIN SymbolOrder : SymbolOrder[i] = s) - 1]
           r == restored_sim_state(store.file.data, ids)
       IN  IF store.file.exists /\ store.file.whole
           THEN /\ acct' = [acct EXCEPT !["SIM"] = r.acct]
                /\ trades' = [trades EXCEPT !["SIM"] = r.trades]
                /\ pos' = [pos EXCEPT !["SIM"] =
                             [s \in Symbols |-> IF r.pos[s] # NoPos THEN r.pos[s] ELSE @[s]]]
                /\ nextId' = nextId + Len(SymbolOrder)
           ELSE UNCHANGED <<acct, trades, pos, nextId>>
    /\ store' = [store EXCEPT !.done = TRUE]
    /\ pc' = [t \in Threads |-> IF pc[t] = "boot" THEN "idle" ELSE pc[t]]
    /\ UNCHANGED <<inflight, orderLock, trained, lastCloseTs, cl>>
    /\ UNCH_clock /\ UNCH_venue /\ UNCH_env /\ UNCH_ml /\ UNCH_risk /\ UNCH_sync /\ UNCH_frames
    /\ UNCHANGED <<pool, lastPrice, rulesCache, hkPrev, lastAiExit, proposals>>

\* the autosave worker beside a simulation account that is fresh, holds an
\* open position, is between booking and clearing it, or has closed it, and a
\* process that may die and start again
PersistLapses == 2
PersistFaults == 2

\* the position _local_open writes for proposal f (lines 2455-2482)
SimOpened(f, id) ==
    LET g == pre_trade_gate(f.side, ENTRY, f.sl, f.tp, START_BALANCE, START_BALANCE)
        x == AlignedExits(f.side, ENTRY, g.sl, g.tp)
        qty == order_qty(ENTRY, x.sl, START_BALANCE, START_BALANCE, BaseRisk)
    IN  [side |-> f.side, qty |-> qty, entry |-> ENTRY, sl |-> x.sl, tp |-> x.tp,
         risk_R |-> Abs(ENTRY - x.sl), uid |-> FreshUid(id), feat |-> TRUE,
         opened |-> T0, id |-> id]

\* the trade close_position_one records for SIM position p settled at px
\* (lines 3099-3155)
SimSettled(p, px) ==
    LET fee_usdt == est_fee(p.qty, p.entry)
    IN  [symbol |-> "s1", side |-> p.side, entry |-> p.entry, exit |-> px,
         qty |-> p.qty, pnl_cash |-> p.qty * (px - p.entry) * Sign(p.side) - fee_usdt,
         fee_usdt |-> fee_usdt, risk_R |-> p.risk_R, pos_uid |-> p.uid,
         account |-> "SIM", id |-> p.id, ts |-> T0, src |-> "tpsl", skip |-> FALSE]

SimAccount(net) ==
    [balance |-> START_BALANCE + net, daily_start_equity |-> 0,
     daily_pnl |-> net, total_pnl |-> net]

\* the simulation books the program passes through from start to first close,
\* each with the file its last forced save left
PersistBooks ==
    LET none == [s \in Symbols |-> NoPos]
        p == SimOpened(GoLong, 1)
        held == [none EXCEPT !["s1"] = p]
        saved(A, T, P) == [StoreInit EXCEPT !.file = WholeFile(snapshot_sim_state(A, T, P)),
                                            !.last = T0]
    IN  {[acct |-> SimAccount(0), trades |-> <<>>, pos |-> none, store |-> StoreInit],
         [acct |-> SimAccount(0), trades |-> <<>>, pos |-> held,
          store |-> saved(SimAccount(0), <<>>, held)]}
        \cup UNION {
          LET tr == SimSettled(p, px)
          IN  {[acct |-> SimAccount(tr.pnl_cash), trades |-> <<tr>>, pos |-> held,
                store |-> saved(SimAccount(0), <<>>, held)],
               [acct |-> SimAccount(tr.pnl_cash), trades |-> <<tr>>, pos |-> none,
                store |-> [saved(SimAccount(tr.pnl_cash), <<tr>>, none)
                             EXCEPT !.csv = <<safe_row(tr, "SIM")>>]]}
          : px \in Prices \ {ENTRY}}

InitPersist ==
    /\ now = T0 /\ ticks = PersistLapses
    /\ pool = {"s1"}
    /\ \E b \in PersistBooks :
          /\ pos = [a \in Accounts |-> IF a = "SIM" THEN b.pos ELSE [s \in Symbols |-> NoPos]]
          /\ acct = [a \in Accounts |-> IF a = "SIM" THEN b.acct ELSE SimAccount(0)]
          /\ trades = [a \in Accounts |-> IF a = "SIM" THEN b.trades ELSE <<>>]
          /\ store = b.store
          /\ streak = IF b.pos["s1"] = NoPos /\ b.trades # <<>>
                      THEN loss_streak_after(NoStreak, "s1", b.trades[1].pnl_cash, T0)
                      ELSE NoStreak
    /\ AtRest
    /\ lastPrice = [s \in Symbols |-> 0]
    /\ inflight = {}
    /\ orderLock = NoThread
    /\ trained = {}
    /\ lastCloseTs = [a \in Accounts |-> [s \in Symbols |-> 0]]
    /\ mlOpen = {}
    /\ mlSamples = <<>>
    /\ rulesCache = {}
    /\ venue = [s \in Symbols |-> NoVenuePos]
    /\ mkt = [s \in Symbols |-> ENTRY]
    /\ env = [fills |-> 0, moves |-> 0, ids |-> 0, faults |-> PersistFaults]
    /\ hkPrev = [s \in Symbols |-> 0]
    /\ lastPosSync = 0
    /\ netBackoffUntil = 0 /\ netBackoffStep = NET_BACKOFF_BASE_MS
    /\ lastAiExit = [a \in Accounts |-> [s \in Symbols |-> 0]]
    /\ nextId = 2
    /\ proposals = [todo |-> <<>>, used |-> {}]
    /\ forcePending = {}
    /\ uq = <<>>
    /\ pc = [t \in Threads |-> "idle"]
    /\ cl = [t \in Threads |-> ClIdle]
    /\ sy = [t \in Threads |-> SyIdle]
    /\ po = [t \in Threads |-> PoIdle]
    /\ hkf = HkIdle
    /\ uf = UfIdle
    /\ mf = [t \in Threads |-> MfIdle]

NextPersist ==
    \/ Lapse
    \/ autosave_state_worker("save")
    \/ Restart
    \/ restore_sim_state

SpecPersist == InitPersist /\ [][NextPersist]_vars

\* what a restore of a snapshot of the present simulation state would build
RoundTrip ==
    restored_sim_state(snapshot_sim_state(acct["SIM"], trades["SIM"], pos["SIM"]),
                       [s \in Symbols |-> pos["SIM"][s].id])

SameOpenPosition(p, q) ==
    /\ (p = NoPos) <=> (q = NoPos)
    /\ p # NoPos => /\ p.side = q.side /\ p.qty = q.qty /\ p.entry = q.entry
                    /\ p.sl = q.sl /\ p.tp = q.tp
                    /\ p.uid = q.uid /\ p.risk_R = q.risk_R

Persisted ==
    /\ store.file.exists /\ store.file.whole
    /\ store.file.data = snapshot_sim_state(acct["SIM"], trades["SIM"], pos["SIM"])

\* C16: whenever the state file holds a complete snapshot of the present
\* simulation state, restoring it gives the same balance, daily and cumulative
\* P&L, the same trade list and the same open positions with their stop,
\* target, unique id and risk distance
C16_RoundTripIdentical ==
    Persisted =>
      /\ RoundTrip.acct.balance = acct["SIM"].balance
      /\ RoundTrip.acct.daily_pnl = acct["SIM"].daily_pnl
      /\ RoundTrip.acct.total_pnl = acct["SIM"].total_pnl
      /\ RoundTrip.trades = trades["SIM"]
      /\ \A s \in Symbols : SameOpenPosition(RoundTrip.pos[s], pos["SIM"][s])

\* C17: the state file is at every moment either absent or one complete
\* snapshot, whichever path of persist_sim_state is running and wherever the
\* process stops
C17_FileNeverPartial == store.file.exists => store.file.whole

\* ------------------------------------------------------- empty-slot close
\* thread t leaves close_position_one through the return of line 3068, having
\* read an empty slot
EmptyClose(t) == pc[t] = "cp_debounce" /\ cl[t].p = NoPos /\ pc'[t] = cl[t].ret

\* C18: a close_position_one call that finds no open position changes no
\* position, ledger, trade history, dedup set or in-flight marker, and nothing
\* that decides what a later close of the same account and symbol does (the
\* debounce stamp)
C18_EmptyCloseIsNoOp ==
    [][\A t \in Threads : EmptyClose(t) =>
          UNCHANGED <<pos, acct, trades, trained, inflight, mlOpen, lastCloseTs>>]_vars

\* ------------------------------------------------------------ venue close
\* two market workers watching one symbol that is open on both accounts, as
\* place_order left it, while the venue holds all, a remainder or nothing of it
VenueMoves == 1
VenueFaults == 4
VenueSizes == {0, 2, 200}
VenueThreads == {"mkt1", "mkt2"}

LiveOpened(f, id) == [SimOpened(f, id) EXCEPT !.opened = 0]   \* lines 2855-2866

\* closed: the values _LAST_CLOSE_TS may hold for the simulated slot (a close
\* request stamps it even when the slot is empty, lines 799-806 and 3064-3068)
OpenedFrom(sizes, lapses, moves, faults, closed) ==
    /\ now = T0 /\ ticks = lapses
    /\ pool = {"s1"}
    /\ pos = [a \in Accounts |-> [s \in Symbols |->
                IF s # "s1" THEN NoPos
                ELSE IF a = "LIVE" THEN LiveOpened(GoLong, 1) ELSE SimOpened(GoLong, 2)]]
    /\ lastPrice = [s \in Symbols |-> 0]
    /\ inflight = {"s1"}
    /\ orderLock = NoThread
    /\ trained = {}
    /\ \E c \in closed :
          lastCloseTs = [a \in Accounts |-> [s \in Symbols |->
                           IF a = "SIM" /\ s = "s1" THEN c ELSE 0]]
    /\ acct = [a \in Accounts |-> SimAccount(0)]
    /\ trades = [a \in Accounts |-> <<>>]
    /\ mlOpen = {<<"LIVE", "s1">>, <<"SIM", "s1">>}
    /\ mlSamples = <<>>
    /\ rulesCache = {"s1"}
    /\ \E size \in sizes :
          venue = [s \in Symbols |-> IF s = "s1" /\ size > 0
                                     THEN [amt |-> size, entry |-> ENTRY]
                                     ELSE NoVenuePos]
    /\ mkt = [s \in Symbols |-> ENTRY]
    /\ env = [fills |-> 0, moves |-> moves, ids |-> 0, faults |-> faults]
    /\ hkPrev = [s \in Symbols |-> 0]
    /\ lastPosSync = T0
    /\ netBackoffUntil = 0 /\ netBackoffStep = NET_BACKOFF_BASE_MS
    /\ lastAiExit = [a \in Accounts |-> [s \in Symbols |-> 0]]
    /\ nextId = 3
    /\ proposals = [todo |-> <<>>, used |-> {"s1"}]
    /\ forcePending = {}
    /\ uq = <<>>
    /\ pc = [t \in Threads |-> "idle"]
    /\ cl = [t \in Threads |-> ClIdle]
    /\ sy = [t \in Threads |-> SyIdle]
    /\ po = [t \in Threads |-> PoIdle]
    /\ hkf = HkIdle
    /\ uf = UfIdle
    /\ mf = [t \in Threads |-> MfIdle]
    /\ store = [StoreInit EXCEPT
                  !.file = WholeFile(snapshot_sim_state(SimAccount(0), <<>>, pos["SIM"])),
                  !.last = T0]
    /\ streak = NoStreak
    /\ AtRest

OpenedBoth(sizes, lapses, moves, faults) == OpenedFrom(sizes, lapses, moves, faults, {0})

InitVenue == OpenedBoth(VenueSizes, 0, VenueMoves, VenueFaults)

NextVenue ==
    \/ PriceMove
    \/ \E s \in Symbols : reconcile_and_force_close(s)
    \/ \E t \in VenueThreads : close_position_one(t)
    \/ \E t \in VenueThreads : on_agg_trade(t)

SpecVenue == InitVenue /\ [][NextVenue]_vars

IsReduceOnly(o) == o.type = "MARKET"
LeavesVenueStep(t) == pc[t] = "cp_venue" /\ pc'[t] # "cp_venue"
LiveUnskipped(t) == cl[t].which = "LIVE" /\ ~cl[t].skip

\* C19: the venue part of a live close that is not skipped sends at most three
\* reduce-only market orders, the first for no more than the size the venue
\* reports, each later one a step smaller but never under one step, then at
\* most one close-position stop-market order, and only after three rejections;
\* whatever the venue answers the call goes on to book the trade, at the
\* supplied price unless an order was filled, and to clear the position
C19_VenueCloseBounded ==
    [][\A t \in Threads :
         /\ LeavesVenueStep(t) =>
              LET sent == cl'[t].sent
                  reduce == SelectSeq(sent, IsReduceOnly)
                  size == Abs(venue[cl[t].sym].amt)
                  step == RULES.stepSize
              IN  /\ pc'[t] = "cp_book"
                  /\ Len(reduce) <= 3
                  /\ \A i \in DOMAIN reduce :
                        /\ step <= reduce[i].qty /\ reduce[i].qty <= size
                        /\ i > 1 => reduce[i].qty = Max(step, reduce[i - 1].qty - step)
                  /\ \A i \in DOMAIN sent :
                        ~IsReduceOnly(sent[i]) => i = Len(sent) /\ Len(reduce) = 3
                  /\ cl'[t].res # "filled" => cl'[t].px = cl[t].px
         /\ (pc[t] = "cp_book" /\ pc'[t] # "cp_book" /\ LiveUnskipped(t)) =>
              /\ pc'[t] = "cp_clear"
              /\ Len(trades'["LIVE"]) = Len(trades["LIVE"]) + 1
              /\ LET tr == trades'["LIVE"][Len(trades'["LIVE"])]
                 IN  tr.id = cl[t].p.id /\ tr.exit = cl[t].px
         /\ (pc[t] = "cp_clear" /\ pc'[t] # "cp_clear" /\ LiveUnskipped(t)) =>
              pos'["LIVE"][cl[t].sym] = NoPos]_vars

\* three reduce-only orders, the last two at the floor of one step, and the
\* fallback were all refused, and the position is booked at the price the
\* caller supplied and cleared
C19_Witness ==
    \E t \in Threads :
        /\ pc[t] = "cp_unflight"
        /\ cl[t].res = "raised"
        /\ Len(cl[t].sent) = 4
        /\ cl[t].sent[1].qty = 2 /\ cl[t].sent[2].qty = 1 /\ cl[t].sent[3].qty = 1
        /\ pos["LIVE"][cl[t].sym] = NoPos
        /\ \E i \in DOMAIN trades["LIVE"] :
              trades["LIVE"][i].id = cl[t].p.id /\ trades["LIVE"][i].exit = cl[t].px

\* ------------------------------------------------- exits of close_position_one
\* thread t returns from close_position_one after it went past the debounce
\* with a position in hand: the clean-up return of line 3079 or the end
Returns(t) ==
    /\ pc[t] \in {"cp_dedup", "cp_train"}
    /\ pc'[t] = cl[t].ret

Booked(p, T) == \E i \in DOMAIN T : T[i].id = p.id

\* C20: when close_position_one returns after acting on a position, that
\* position is out of its slot and its trade is on the books; and a call that
\* has settled a live position is never left waiting for ORDER_LOCK behind its
\* own thread, so the in-flight marker does get released
C20_NoAmbiguousExit ==
    [][\A t \in Threads :
         /\ Returns(t) =>
              /\ Booked(cl[t].p, trades'[cl[t].which])
              /\ pos'[cl[t].which][cl[t].sym].id # cl[t].p.id
         /\ ~(pc'[t] = "cp_unflight" /\ orderLock' = t)]_vars

\* --------------------------------------------------------------- loss streak
\* one symbol that has just lost twice: the first LIVE and SIM positions were
\* stopped out one stop distance below the entry, and the second pair is open;
\* the venue either still holds the LIVE position or has closed it unseen
StreakMoves == 1
StreakIds == 6
StreakFaults == 1
StreakThreads == {"mkt1", "sync"}
STOPPED_AT == ENTRY - 100        \* GoLong's stop

\* the LIVE record of a position the reconciliation pass settled at px
LiveSettled(p, px) ==
    [SimSettled(p, px) EXCEPT !.account = "LIVE", !.src = "sync", !.skip = TRUE]

InitStreak ==
    LET lost == SimSettled(SimOpened(GoLong, 2), STOPPED_AT)
        lostLive == LiveSettled(LiveOpened(GoLong, 1), STOPPED_AT)
        simAcct == SimAccount(lost.pnl_cash)
        again == [SimOpened(GoLong, 4) EXCEPT
                    !.qty = order_qty(ENTRY, SimOpened(GoLong, 4).sl, simAcct.balance, simAcct.balance, BaseRisk)]
    IN  /\ now = T0 + POS_SYNC_MS /\ ticks = 0
        /\ pool = {"s1"}
        /\ pos = [a \in Accounts |-> [s \in Symbols |->
                    IF s # "s1" THEN NoPos
                    ELSE IF a = "LIVE" THEN LiveOpened(GoLong, 3) ELSE again]]
        /\ lastPrice = [s \in Symbols |-> IF s = "s1" THEN STOPPED_AT ELSE 0]
        /\ inflight = {"s1"}
        /\ orderLock = NoThread
        /\ trained = {FreshUid(1), FreshUid(2)}
        /\ lastCloseTs = [a \in Accounts |-> [s \in Symbols |-> IF s = "s1" THEN T0 ELSE 0]]
        /\ acct = [a \in Accounts |->
                     IF a = "SIM" THEN simAcct
                     ELSE [SimAccount(0) EXCEPT !.total_pnl = lostLive.pnl_cash,
                                                !.daily_pnl = lostLive.pnl_cash]]
        /\ trades = [a \in Accounts |-> IF a = "SIM" THEN <<lost>> ELSE <<lostLive>>]
        /\ mlOpen = {<<"LIVE", "s1">>, <<"SIM", "s1">>}
        /\ mlSamples = <<[which |-> "LIVE", sym |-> "s1", id |-> 1],
                         [which |-> "SIM", sym |-> "s1", id |-> 2]>>
        /\ rulesCache = {"s1"}
        /\ \E held \in BOOLEAN :
              venue = [s \in Symbols |-> IF s = "s1" /\ held
                                         THEN [amt |-> LiveOpened(GoLong, 3).qty, entry |-> ENTRY]
                                         ELSE NoVenuePos]
        /\ mkt = [s \in Symbols |-> ENTRY]
        /\ env = [fills |-> 0, moves |-> StreakMoves, ids |-> StreakIds, faults |-> StreakFaults]
        /\ hkPrev = [s \in Symbols |-> 0]
        /\ lastPosSync = T0
        /\ netBackoffUntil = 0 /\ netBackoffStep = NET_BACKOFF_BASE_MS
        /\ lastAiExit = [a \in Accounts |-> [s \in Symbols |-> 0]]
        /\ nextId = 5
        /\ proposals = [todo |-> <<GoLong>>, used |-> {"s1"}]
        /\ forcePending = {}
        /\ uq = <<>>
        /\ pc = [t \in Threads |-> "idle"]
        /\ cl = [t \in Threads |-> ClIdle]
        /\ sy = [t \in Threads |-> SyIdle]
        /\ po = [t \in Threads |-> PoIdle]
        /\ hkf = HkIdle
        /\ uf = UfIdle
        /\ mf = [t \in Threads |-> MfIdle]
        /\ store = [StoreInit EXCEPT
                      !.file = WholeFile(snapshot_sim_state(simAcct, <<lost>>,
                                   [s \in Symbols |-> IF s = "s1" THEN again ELSE NoPos])),
                      !.last = T0,
                      !.csv = <<safe_row(lostLive, "LIVE"), safe_row(lost, "SIM")>>]
        /\ streak = [NoStreak EXCEPT !.n["s1"] = 2]
        /\ AtRest

NextStreak ==
    \/ PriceMove
    \/ \E s \in Symbols : reconcile_and_force_close(s)
    \/ \E t \in StreakThreads : close_position_one(t)
    \/ \E t \in StreakThreads : sync_live_positions_periodic(t)
    \/ on_kline("mkt1")
    \/ place_order("mkt1")
    \/ on_agg_trade("mkt1")
    \/ pos_sync_worker("sync")

SpecStreak == InitStreak /\ [][NextStreak]_vars

\* place_order stores a new position in s
OpensIn(s) ==
    \E t \in MarketThreads, a \in Accounts :
       /\ pc[t] \in {"po_live_set", "po_sim"} /\ po[t].sym = s
       /\ pos[a][s] = NoPos /\ pos'[a][s] # NoPos

\* a settlement of a position in s ends, having booked net PnL x
SettlesWith(t, s) == pc[t] = "cp_train" /\ pc'[t] # "cp_train" /\ cl[t].sym = s

\* C21: after LOSS_STREAK_LIMIT consecutive losing settlements on a symbol no
\* new position is opened on it until the cooldown window has elapsed (no
\* place_order stores a position in a symbol whose suspension has not run out,
\* and the settlement that makes the streak reach the limit starts a window of
\* LOSS_SUSPEND_MS), and a profitable settlement resets the streak to zero.
C21_SuspendedSymbolStaysFlat ==
    [][\A s \in Symbols :
         /\ OpensIn(s) => ~(now < streak.until[s])
         /\ \A t \in Threads :
               SettlesWith(t, s) =>
                 /\ cl[t].net > 0 => streak'.n[s] = 0
                 /\ (cl[t].net <= 0 /\ streak.n[s] + 1 >= LOSS_STREAK_LIMIT)
                       => streak'.until[s] = now + LOSS_SUSPEND_MS]_vars

\* ------------------------------------------------------------------ shutdown
\* UserWSManager.stop, lines 4559-4577, called from the finally block of main
\* (lines 4780-4795): the only stop signal the background workers could see
user_ws_stop ==
    /\ ~stopFlag
    /\ stopFlag' = TRUE
    /\ UNCHANGED <<pos, inflight, orderLock, trained, lastCloseTs, pc, cl, streak, roiSince>>
    /\ UNCH_clock /\ UNCH_venue /\ UNCH_env /\ UNCH_ledger /\ UNCH_ml /\ UNCH_sync
    /\ UNCH_frames /\ UNCH_misc /\ UNCH_dyn

\* _keep, line 4548: while not self.stop_flag.is_set()
listenkey_keepalive_check(t) ==
    /\ pc[t] = "idle"
    /\ pc' = [pc EXCEPT ![t] = IF stopFlag THEN "done" ELSE "ka_sleep"]
    /\ UNCHANGED <<pos, inflight, orderLock, trained, lastCloseTs, cl>>
    /\ UNCH_clock /\ UNCH_venue /\ UNCH_env /\ UNCH_ledger /\ UNCH_ml /\ UNCH_risk /\ UNCH_sync
    /\ UNCH_frames /\ UNCH_misc

\* lines 4549-4554: sleep, then keepalive_listen_key, whose failure is printed
listenkey_keepalive_call(t) ==
    /\ pc[t] = "ka_sleep"
    /\ pc' = [pc EXCEPT ![t] = "idle"]
    /\ UNCHANGED <<pos, inflight, orderLock, trained, lastCloseTs, cl>>
    /\ UNCH_clock /\ UNCH_venue /\ UNCH_env /\ UNCH_ledger /\ UNCH_ml /\ UNCH_risk /\ UNCH_sync
    /\ UNCH_frames /\ UNCH_misc

listenkey_keepalive(t) ==
    \/ listenkey_keepalive_check(t)
    \/ listenkey_keepalive_call(t)

\* the background workers beside an open position that the venue holds too;
\* no request fails, every worker is scheduled again and again, and main
\* raises the stop signal at some point
StopLapses == 2
StopWorkers == {"sync", "hk", "save", "keep"}

InitStop == OpenedBoth({LiveOpened(GoLong, 1).qty}, StopLapses, 0, 0)

\* autosave_state_worker without the fallback write that only a failure reaches
autosave_pass(t) ==
    \/ persist_snapshot(t)
    \/ persist_tmp(t)
    \/ persist_dump(t)
    \/ persist_replace(t)

NextStop ==
    \/ Lapse
    \/ user_ws_stop
    \/ pos_sync_worker("sync")
    \/ sync_live_positions_periodic("sync")
    \/ housekeeping_worker("hk")
    \/ autosave_pass("save")
    \/ listenkey_keepalive("keep")

SpecStop ==
    /\ InitStop /\ [][NextStop]_vars
    /\ WF_vars(user_ws_stop)
    /\ WF_vars(pos_sync_worker("sync") \/ sync_live_positions_periodic("sync"))
    /\ WF_vars(housekeeping_worker("hk"))
    /\ WF_vars(autosave_pass("save"))
    /\ WF_vars(listenkey_keepalive("keep"))

\* C22: every long-lived background worker checks the stop signal once per
\* loop iteration, so once the stop signal is raised every worker eventually
\* terminates.
C22_WorkersTerminate == stopFlag ~> (\A w \in StopWorkers : pc[w] = "done")

\* ------------------------------------------------------------- ORDER_LOCK
\* the statements `with ORDER_LOCK:` a thread can stand in front of: lines
\* 2889, 2929, 1536, 3225 and 4455-4461
WaitsForOrderLock(t) ==
    pc[t] \in {"po_lock", "po_release", "sy_unflight", "cp_unflight", "ou_unflight"}

\* C23: place_order never blocks for ever: a thread that holds the
\* non-reentrant ORDER_LOCK is never in front of a statement that acquires
\* ORDER_LOCK again, whatever the venue returned to the reconciliation pass it
\* runs inside the critical section, so it goes on to return and release it.
C23_NoSelfAcquire == \A t \in Threads : ~(orderLock = t /\ WaitsForOrderLock(t))

\* ------------------------------------------------- snapshot and comparison
\* the pass of thread t settles the LIVE position of s as closed at the venue
SettlesAsExternal(t, s) ==
    /\ pc[t] = "sy_loop" /\ pc'[t] = "cp_read"
    /\ cl'[t].sym = s /\ cl'[t].src = "sync"

\* C24: reconciliation settles a local LIVE position as externally closed only
\* if that position already existed when the venue snapshot it compares
\* against was fetched; a position place_order opened between the fetch and
\* the per-symbol comparison is not settled by that pass.
C24_SettlesOnlySnapshotPositions ==
    [][\A t \in Threads, s \in Symbols :
         SettlesAsExternal(t, s) => pos["LIVE"][s].id < sy[t].seen]_vars

\* ------------------------------------------------------------ failed reads
\* the housekeeping worker beside a market worker, with a position open on
\* both accounts that the venue holds, and two requests that may fail
HouseMoves == 1
HouseFaults == 2
HouseThreads == {"mkt1", "hk"}

\* a close request on the simulated slot 100 ms before the clock's start, or none
RECENT_CLOSE == T0 - 100

InitHouse ==
    OpenedFrom({LiveOpened(GoLong, 1).qty}, 0, HouseMoves, HouseFaults, {0, RECENT_CLOSE})

NextHouse ==
    \/ PriceMove
    \/ \E s \in Symbols : reconcile_and_force_close(s)
    \/ \E t \in HouseThreads : close_position_one(t)
    \/ on_agg_trade("mkt1")
    \/ housekeeping_worker("hk")

SpecHouse == InitHouse /\ [][NextHouse]_vars

\* the positionRisk request of the sync pass of thread t fails
FailedPoll(t) == pc[t] = "sy_fetch" /\ pc'[t] # "sy_fetch" /\ pc'[t] # "sy_loop"

\* the housekeeping pass goes on to settle a symbol
HousekeepingSettles == pc["hk"] = "hk_loop" /\ pc'["hk"] = "cp_read"

\* C25: a transport failure while reading the venue's position list never
\* causes a local LIVE position to be settled or cleared: a reconciliation
\* pass whose read failed ends with every position and the ledger unchanged,
\* and a housekeeping pass settles a symbol only after a read that was
\* answered.
C25_FailedReadSettlesNothing ==
    [][/\ \A t \in Threads : FailedPoll(t) =>
              /\ pc'[t] = sy[t].ret
              /\ UNCHANGED <<pos, acct, trades>>
       /\ HousekeepingSettles => hkf.ok]_vars

GateIds == 2
GateFaults == 1
GateProposals ==
    {GoLong, GoShort, BadStop,
     [side |-> "LONG", entry |-> ENTRY, sl |-> ENTRY - 100, tp |-> ENTRY - 50],
     [side |-> "LONG", entry |-> ENTRY, sl |-> ENTRY, tp |-> ENTRY + 200],
     [side |-> "SHORT", entry |-> ENTRY, sl |-> ENTRY - 100, tp |-> ENTRY - 200],
     [side |-> "SHORT", entry |-> ENTRY, sl |-> ENTRY + 100, tp |-> ENTRY],
     \* an instrument at 3.00: one contract is below minNotional
     [side |-> "LONG", entry |-> 300, sl |-> 290, tp |-> 320]}
GateBalances == {-100, 0, 500, START_BALANCE}

InitGate ==
    \E f \in GateProposals : \E bal \in [Accounts -> GateBalances] :
       InitFunded({"s1"}, Budget(0, <<f>>, 0, 0, GateIds, GateFaults), bal)

GateThreads == {"mkt1", "sync"}

NextGate ==
    \/ \E t \in GateThreads : sync_live_positions_periodic(t)
    \/ on_kline("mkt1")
    \/ place_order("mkt1")
    \/ pos_sync_worker("sync")

SpecGate == InitGate /\ [][NextGate]_vars

\* what the gate requires of proposal f on account which
GateAllows(f, which) ==
    LET avail == acct[which].balance
        q == order_qty(f.entry, f.sl, acct[which].balance, avail, BaseRisk)
    IN  /\ IF f.side = "LONG" THEN f.tp > f.entry /\ f.entry > f.sl
                               ELSE f.tp < f.entry /\ f.entry < f.sl
        /\ avail > 0
        /\ q > 0
        /\ q >= RULES.minQty
        /\ q * f.entry >= RULES.minNotional

\* place_order_one has asked the gate about thread t's proposal for which
GateAsked(t, which) ==
    IF which = "LIVE"
    THEN pc[t] = "po_live" /\ pc'[t] # "po_live" /\ po'[t].live # "raised"
    ELSE pc[t] = "po_sim" /\ pc'[t] # "po_sim" /\ po'[t].sim # "raised"

GateVerdict(t, which) == IF which = "LIVE" THEN po'[t].live ELSE po'[t].sim

\* C30: the gate accepts a proposal only if target > entry > stop for LONG
\* (target < entry < stop for SHORT), the available margin is positive and the
\* step-floored preview quantity is positive, at least minQty and at least
\* minNotional in notional; every other proposal is rejected with a reason,
\* opens nothing on that account and is not put to the gate again.
C30_GateAcceptsOnlyValid ==
    [][\A t \in Threads : \A which \in Accounts :
         /\ GateAsked(t, which) =>
              /\ GateVerdict(t, which) # "gate_block" => GateAllows(po[t], which)
              /\ ~GateAllows(po[t], which) =>
                    /\ GateVerdict(t, which) = "gate_block"
                    /\ pre_trade_gate(po[t].side, po[t].entry, po[t].sl, po[t].tp,
                                      acct[which].balance, acct[which].balance).why # ""
                    /\ pos'[which] = pos[which]
         /\ (which = "LIVE" /\ po[t].live = "gate_block") => pc'[t] \notin {"po_live", "po_live_order", "po_live_set"}
         /\ (which = "SIM" /\ po[t].sim = "gate_block") => pc'[t] \notin {"po_sim"} /\ pos'["SIM"] = pos["SIM"]]_vars

\* one proposal, accepted for the live account, which holds the position it
\* opened, and refused for the simulated one, which has no margin
C30_Witness ==
    \E t \in Threads :
       /\ po[t].live = "live" /\ po[t].sim = "gate_block"
       /\ pos["LIVE"][po[t].sym] # NoPos
       /\ pos["SIM"][po[t].sym] = NoPos
       /\ acct["SIM"].balance <= 0

(***************************************************************************)
(* The dynamic exit manager (lines 2964-3046) beside the trailing stop of  *)
(* the price-tick handler.                                                 *)
(***************************************************************************)
Regimes == {"RANGE", "UP", "DOWN"}

\* _dyn_target_tp_sl, lines 703-749: the target exits for position p with ATR
\* a under a regime, or none when the ATR is missing
dyn_target_tp_sl(p, last, a, regime) ==
    LET m == DYN_MULT[regime]
        sl_distE4 == Max(m.k_sl * a * 1000, p.entry * DYN_MIN_SL_PCT_E2)
        tp_distE4 == Max(m.k_tp * a * 1000, p.entry * DYN_MIN_TP_PCT_E2)
        long == p.side = "LONG"
        slE4 == IF long THEN p.entry * 10000 - sl_distE4 ELSE p.entry * 10000 + sl_distE4
        tpE4 == IF long THEN p.entry * 10000 + tp_distE4 ELSE p.entry * 10000 - tp_distE4
        tick == RULES.tickSize
    IN  IF p = NoPos \/ last = 0 \/ a <= 0 THEN [ok |-> FALSE, tp |-> 0, sl |-> 0]
        ELSE [ok |-> TRUE,
              tp |-> round_price_to_tick(apply_min_gap(p.entry, tpE4, tick, long), tick,
                                         IF long THEN 1 ELSE -1),
              sl |-> round_price_to_tick(apply_min_gap(p.entry, slE4, tick, ~long), tick,
                                         IF long THEN -1 ELSE 1)]

\* _enforce_tighten_only, lines 752-759
enforce_tighten_only(cur_sl, new_sl, side, only_tighten) ==
    IF ~only_tighten THEN new_sl
    ELSE IF side = "LONG" THEN Max(cur_sl, new_sl) ELSE Min(cur_sl, new_sl)

\* _ticks_between(a, b, tick) >= n
ticks_between_at_least(a, b, tick, n) == Abs(a - b) >= n * tick

\* lines 2977-2978: now_ms = utc_ms(), then every symbol and both accounts
dynamic_exit_manager_begin(t) ==
    /\ pc[t] = "idle"
    /\ dyn' = [dyn EXCEPT !.now_ms = now, !.todo = Accounts \X pool]
    /\ pc' = [pc EXCEPT ![t] = "dx_loop"]
    /\ UNCHANGED <<pos, inflight, orderLock, trained, lastCloseTs, cl, streak, stopFlag,
                   roiSince, atr, exits>>
    /\ UNCH_clock /\ UNCH_venue /\ UNCH_env /\ UNCH_ledger /\ UNCH_ml /\ UNCH_sync
    /\ UNCH_frames /\ UNCH_misc

\* lines 2979-3046: one (symbol, account) of the pass
dynamic_exit_manager_adjust(t) ==
    /\ pc[t] = "dx_loop"
    /\ \E k \in dyn.todo :
          /\ k[1] = "SIM" => <<"LIVE", k[2]>> \notin dyn.todo
          /\ LET which == k[1]
                 s == k[2]
                 p == pos[which][s]
                 skip == /\ dyn' = [dyn EXCEPT !.todo = @ \ {k}]
                         /\ UNCHANGED <<pos, exits>>
                         /\ UNCH_env
             IN  IF p = NoPos \/ lastPrice[s] = 0 THEN skip
                 \* _LAST_DYN_ADJ_MS.get(key, 0): utc_ms() is an epoch time, so a
                 \* key that was never stamped does not throttle
                 ELSE IF /\ dyn.last[which][s] # 0
                         /\ dyn.now_ms - dyn.last[which][s] < DYN_MIN_SEC_BETWEEN_ADJ * 1000
                 THEN skip
                 ELSE \E regime \in Regimes :
                    LET tgt == dyn_target_tp_sl(p, lastPrice[s], atr[s], regime)
                        tick == RULES.tickSize
                        sl_new == enforce_tighten_only(p.sl, tgt.sl, p.side, DYN_ONLY_TIGHTEN_SL)
                        tp_new == tgt.tp
                        sl_move_ok == p.sl = 0 \/ ticks_between_at_least(sl_new, p.sl, tick,
                                                                         DYN_MIN_TICK_CHANGE_SL)
                        tp_move_ok == p.tp = 0 \/ ticks_between_at_least(tp_new, p.tp, tick,
                                                                         DYN_MIN_TICK_CHANGE_TP)
                        \* lines 3027-3033: max(tick, entry * 0.0005) away from the entry
                        gap == Max(tick, (p.entry * 5) \div 10000)
                        live_sl == IF p.side = "LONG" THEN Min(sl_new, p.entry - gap)
                                                      ELSE Max(sl_new, p.entry + gap)
                        live_tp == IF p.side = "LONG" THEN Max(tp_new, p.entry + gap)
                                                      ELSE Min(tp_new, p.entry - gap)
                    IN  IF ~tgt.ok THEN skip
                        ELSE IF ~sl_move_ok /\ ~tp_move_ok THEN skip
                        ELSE /\ dyn' = [dyn EXCEPT !.todo = @ \ {k},
                                                   !.last[which][s] = dyn.now_ms]
                             /\ IF which = "SIM"
                                THEN /\ pos' = [pos EXCEPT !["SIM"][s] =
                                          [p EXCEPT !.sl = IF sl_move_ok THEN sl_new ELSE @,
                                                    !.tp = IF tp_move_ok THEN tp_new ELSE @]]
                                     /\ UNCHANGED exits
                                     /\ UNCH_env
                                ELSE \* _live_replace_exits, lines 2935-2961: cancel the
                                     \* orders and place both anew; a failure is logged
                                     /\ UNCHANGED pos
                                     /\ \/ exits' = [exits EXCEPT ![s] =
                                                       [sl |-> live_sl, tp |-> live_tp]]
                                           /\ UNCH_env
                                        \/ Fault /\ UNCHANGED exits
    /\ UNCHANGED <<pc, inflight, orderLock, trained, lastCloseTs, cl, streak, stopFlag,
                   roiSince, atr>>
    /\ UNCH_clock /\ UNCH_venue /\ UNCH_ledger /\ UNCH_ml /\ UNCH_sync
    /\ UNCH_frames /\ UNCH_misc

\* the pass is over; dynamic_exit_manager_worker sleeps 3 s (line 4837)
dynamic_exit_manager_end(t) ==
    /\ pc[t] = "dx_loop"
    /\ dyn.todo = {}
    /\ pc' = [pc EXCEPT ![t] = "idle"]
    /\ UNCHANGED <<pos, inflight, orderLock, trained, lastCloseTs, cl>>
    /\ UNCH_clock /\ UNCH_venue /\ UNCH_env /\ UNCH_ledger /\ UNCH_ml /\ UNCH_risk /\ UNCH_sync
    /\ UNCH_frames /\ UNCH_misc

dynamic_exit_manager_once(t) ==
    \/ dynamic_exit_manager_begin(t)
    \/ dynamic_exit_manager_adjust(t)
    \/ dynamic_exit_manager_end(t)

\* on_kline, lines 3566-3590: a candle is appended or replaced and the ATR of
\* the last candles changes with it
AtrValues == {20, 56}
candle_update ==
    /\ env.moves > 0
    /\ \E s \in pool, a \in AtrValues :
          /\ a # atr[s]
          /\ atr' = [atr EXCEPT ![s] = a]
    /\ env' = [env EXCEPT !.moves = @ - 1]
    /\ UNCHANGED <<pos, inflight, orderLock, trained, lastCloseTs, pc, cl, venue, mkt, uq,
                   forcePending, streak, stopFlag, roiSince, dyn, exits>>
    /\ UNCH_clock /\ UNCH_ledger /\ UNCH_ml /\ UNCH_sync /\ UNCH_frames /\ UNCH_misc

(***************************************************************************)
(* The ROI fallback of the price-tick handler.                             *)
(* Both books hold a LONG from ENTRY and the market moves into the band    *)
(* between the ROI profit threshold and the target, so neither the TP/SL   *)
(* check nor the venue's orders act.                                       *)
(***************************************************************************)
RoiTicks == 3
RoiFaults == 0
RoiMoves == 1
ROI_BAND_PRICE == ENTRY + 150

InitRoi == OpenedBoth({LiveOpened(GoLong, 1).qty}, RoiTicks, RoiMoves, RoiFaults)

NextRoi ==
    \/ Tick
    \/ PriceMoveTo({ROI_BAND_PRICE})
    \/ on_agg_trade("mkt1")
    \/ close_position_one("mkt1")
    \/ \E s \in Symbols : reconcile_and_force_close(s)

SpecRoi == InitRoi /\ [][NextRoi]_vars

\* the position object id was settled from its slot with the ROI reason
RoiSettled(id, s) ==
    /\ \A a \in Accounts : pos[a][s] = NoPos \/ pos[a][s].id # id
    /\ \E a \in Accounts : \E i \in 1..Len(trades[a]) :
          trades[a][i].id = id /\ trades[a][i].src = "roi"

\* C26: when a run of on_agg_trade has found a position older than
\* ROI_MIN_AGE_SEC whose ROI stayed at or beyond a threshold for
\* ROI_CONFIRM_SEC, the run ends with that position's slot empty and a trade
\* record with the ROI-fallback reason appended.
C26_RoiFallbackSettles ==
    [][\A t \in Threads :
         (pc[t] = "at_end" /\ pc'[t] = "idle") =>
            \A id \in mf[t].due : RoiSettled(id, mf[t].sym)]_vars

\* both books hold the LONG of one proposal, opened right after a close
\* request on the empty simulated slot or long after; a candle closes, the
\* price moves past the target, the clock passes the adjustment interval, the
\* price-tick handler and the exit manager run
DynLapses == 1
DynMoves == 2
DynFaults == 0

InitDyn ==
    OpenedFrom({LiveOpened(GoLong, 1).qty}, DynLapses, DynMoves, DynFaults, {0, RECENT_CLOSE})

NextDyn ==
    \/ Lapse
    \/ PriceMoveTo({ENTRY + 600})
    \/ candle_update
    \/ \E s \in Symbols : reconcile_and_force_close(s)
    \/ close_position_one("mkt1")
    \/ on_agg_trade("mkt1")
    \/ dynamic_exit_manager_once("dyn")

SpecDyn == InitDyn /\ [][NextDyn]_vars

\* the stop and the target in force for a position: the stored fields for
\* SIM; for LIVE the resting orders, which are those placed at open (equal to
\* the stored fields) until _live_replace_exits has replaced them
StopOf(which, s) ==
    IF which = "SIM" \/ exits[s] = NoExits THEN pos[which][s].sl ELSE exits[s].sl
TargetOf(which, s) ==
    IF which = "SIM" \/ exits[s] = NoExits THEN pos[which][s].tp ELSE exits[s].tp

\* C28: the exit manager changes a position's stop or target (stored fields
\* for SIM, resting orders for LIVE) only if DYN_MIN_SEC_BETWEEN_ADJ has
\* elapsed since the position's last adjustment, changes the stop only by at
\* least DYN_MIN_TICK_CHANGE_SL ticks and the target only by at least
\* DYN_MIN_TICK_CHANGE_TP ticks, and in tighten-only mode never picks a stop
\* farther from the price than the current one.
C28_ExitAdjustmentsThrottled ==
    [][\A t \in Threads : \A k \in Accounts \X Symbols :
         (pc[t] = "dx_loop" /\ k \in dyn.todo /\ k \notin dyn'.todo /\ pos[k[1]][k[2]] # NoPos)
         => LET which == k[1]
                s == k[2]
                p == pos[which][s]
                tick == RULES.tickSize
                old_sl == StopOf(which, s)
                old_tp == TargetOf(which, s)
                new_sl == StopOf(which, s)'
                new_tp == TargetOf(which, s)'
            IN  /\ (new_sl # old_sl \/ new_tp # old_tp)
                      => \/ dyn.last[which][s] = 0
                         \/ now - dyn.last[which][s] >= DYN_MIN_SEC_BETWEEN_ADJ * 1000
                /\ new_sl # old_sl
                      => old_sl = 0 \/ Abs(new_sl - old_sl) >= DYN_MIN_TICK_CHANGE_SL * tick
                /\ new_tp # old_tp
                      => old_tp = 0 \/ Abs(new_tp - old_tp) >= DYN_MIN_TICK_CHANGE_TP * tick
                /\ \A regime \in Regimes :
                      LET tgt == dyn_target_tp_sl(p, lastPrice[s], atr[s], regime)
                          kept == enforce_tighten_only(p.sl, tgt.sl, p.side, TRUE)
                      IN  (tgt.ok /\ p.sl # 0)
                            => IF p.side = "LONG" THEN kept >= p.sl ELSE kept <= p.sl]_vars

\* C29: after any sequence of trailing updates and retargets on an open
\* position the stored stop and target do not cross: stop < target for LONG
\* and stop > target for SHORT, in every reachable state.
C29_StopAndTargetNeverCross ==
    \A a \in Accounts : \A s \in Symbols :
       LET p == pos[a][s]
       IN  (p # NoPos /\ p.sl # 0 /\ p.tp # 0)
             => IF p.side = "LONG" THEN p.sl < p.tp ELSE p.sl > p.tp

(***************************************************************************)
(* Exit alignment and sizing in place_order_one (lines 2745-2795): one     *)
(* proposal whose entry is a venue price (the close of the last candle,    *)
(* line 3461, or the last trade price, line 3621) and whose stop and       *)
(* target, computed from the ATR, lie anywhere around it: on or off the    *)
(* tick grid, inside or outside the minimum gap.                           *)
(***************************************************************************)
AlignIds == 2
AlignFaults == 1
AlignOffsets == {3, 12, 58, 60, 63, 100, 203}
\* a price the venue quotes: on its tick grid
AlignEntry == floor_to_step(ENTRY, RULES.tickSize)
\* beside it a price of which 0.15 % is more than 12 ticks and off the grid
AlignEntries == {AlignEntry, 40010}
AlignProposals ==
    {[side |-> d, entry |-> e, sl |-> e - Sign(d) * a, tp |-> e + Sign(d) * b] :
        d \in Sides, e \in AlignEntries, a \in AlignOffsets, b \in AlignOffsets}
AlignBalances == {0, START_BALANCE}

InitAlign ==
    \E f \in AlignProposals : \E bal \in [Accounts -> AlignBalances] :
       InitFunded({"s1"}, Budget(0, <<f>>, 0, 0, AlignIds, AlignFaults), bal)

SpecAlign == InitAlign /\ [][NextGate]_vars

OnTick(x) == x % RULES.tickSize = 0

Ordered(side, entry, sl, tp) ==
    IF side = "LONG" THEN tp > entry /\ entry > sl ELSE tp < entry /\ entry < sl

ExitsFixed(t, which) ==
    /\ GateAsked(t, which)
    /\ IF which = "LIVE" THEN pc'[t] = "po_live_order" ELSE po'[t].sim = "local"

FinalStop(t, which) == IF which = "LIVE" THEN po'[t].lsl ELSE pos'["SIM"][po[t].sym].sl
FinalTarget(t, which) == IF which = "LIVE" THEN po'[t].ltp ELSE pos'["SIM"][po[t].sym].tp

\* r is the multiple of tick that rounding the 1e-4 price v in direction d gives
RoundedTo(v, d, r) ==
    /\ OnTick(r)
    /\ IF d > 0 THEN (r - RULES.tickSize) * 10000 < v /\ v <= r * 10000
                ELSE r * 10000 <= v /\ v < (r + RULES.tickSize) * 10000

FinalQty(t, which) == IF which = "LIVE" THEN po'[t].lqty ELSE pos'["SIM"][po[t].sym].qty

\* C33: the quantity place_order_one ends with is the largest multiple of
\* stepSize not above min(balance * riskPct / 100 * entry / |entry - stop|,
\* availableMargin * leverage * 0.95) / entry, with the final stop; sizing
\* gives 0 when entry <= 0 or entry = stop, 100 for entry 100, stop 98,
\* riskPct 2, balance 10000 and leverage 10, and a raw 100.004 floors to
\* 100.00 with step 0.01.
C33_QuantityFlooredToStep ==
    [][\A t \in Threads : \A which \in Accounts :
         ExitsFixed(t, which) =>
            LET f == po[t]
                step == RULES.stepSize
                bal == acct[which].balance
                dist == Abs(f.entry - FinalStop(t, which))
                q == FinalQty(t, which)
                \* x contracts are within the risk budget, within the margin budget
                InRisk(x) == x * 100 * dist <= bal * RISK_PER_TRADE_PCT
                InMargin(x) == x * f.entry * 100 <= bal * LEVERAGE * 95
            IN  /\ q >= 0 /\ q % step = 0
                /\ InRisk(q) /\ InMargin(q)
                /\ ~(InRisk(q + step) /\ InMargin(q + step))
                /\ compute_qty(0, FinalStop(t, which), bal, bal, BaseRisk) = 0
                /\ compute_qty(0 - f.entry, FinalStop(t, which), bal, bal, BaseRisk) = 0
                /\ compute_qty(f.entry, f.entry, bal, bal, BaseRisk) = 0
                /\ (LEVERAGE = 10 /\ RISK_PER_TRADE_PCT = 2)
                      => compute_qty(10000, 9800, 1000000, 1000000, BaseRisk) = 100 * 100
                /\ floor_to_step(100004, 10) = 100000]_vars

\* a simulated position whose raw quantity was not a whole number of steps:
\* what it holds is strictly inside both budgets
C33_Witness ==
    \E t \in Threads :
       LET f == po[t]
           p == pos["SIM"][f.sym]
           bal == acct["SIM"].balance
       IN  /\ f.sim = "local" /\ p # NoPos /\ p.qty > 0
           /\ p.qty * 100 * Abs(p.entry - p.sl) < bal * RISK_PER_TRADE_PCT
           /\ p.qty * p.entry * 100 < bal * LEVERAGE * 95


(***************************************************************************)
(* The admission model (MLManager, lines 2006-2259) beside place_order and *)
(* close_position_one: a process that starts from an ml_state.json written *)
(* by earlier runs, with AI_ENABLE off or on, few or many outcomes seen    *)
(* and the classifier fitted or not, takes two proposals for one symbol    *)
(* and settles what it opened.                                             *)
(***************************************************************************)
MlIds == 3
MlMoves == 1
MlFaults == 1

\* n entries e in ML.recent
Filled(n, e) == [i \in 1..n |-> e]

\* AI_ENABLE is read from the environment at every start, so a file written
\* while it was off (outcomes counted, nothing fitted) may be loaded with it on
MlStates ==
    {MlOff,
     MLManager(TRUE, ML_THRESHOLD_E2, 40, 39, 0, <<>>),
     MLManager(TRUE, ML_THRESHOLD_E2, 50, 50, 0, <<>>),
     MLManager(TRUE, ML_THRESHOLD_E2, 44, 44, 27, <<>>),
     MLManager(TRUE, ML_THRESHOLD_E2, 45, 44, 30, <<>>),
     MLManager(TRUE, ML_THRESHOLD_E2, 45, 44, 30, Filled(50, <<60, 1>>)),
     MLManager(TRUE, ML_THRESHOLD_E2, 45, 44, 30, Filled(30, <<100, 0>>))}

InitLearn ==
    \E m \in MlStates :
       InitMl({"s1"}, Budget(0, <<GoLong, GoShort>>, 0, MlMoves, MlIds, MlFaults),
              [a \in Accounts |-> START_BALANCE], m)

NextLearn ==
    \/ PriceMoveTo({ENTRY + 600})
    \/ \E s \in Symbols : reconcile_and_force_close(s)
    \/ close_position_one("mkt1")
    \/ \E t \in GateThreads : sync_live_positions_periodic(t)
    \/ on_kline("mkt1")
    \/ place_order("mkt1")
    \/ on_agg_trade("mkt1")
    \/ pos_sync_worker("sync")

SpecLearn == InitLearn /\ [][NextLearn]_vars


\* m is enabled and has what place_order_one asks of a trained model
SufficientlyTrained(m) ==
    m.enabled /\ m.n_seen >= 30 /\ m.pos_seen + m.neg_seen >= AI_MIN_SEEN_FOR_ACTION

\* the ratio r of percent is at least a / b
AtLeast(r, a, b) == r.n * b >= a * r.d

\* place_order_one on account which sized the order of frame f, stop sl, to qty
\* with a risk percent that is the base or more and 2.5 x the base or less,
\* is the base unless m is sufficiently trained and handed a probability, and
\* is no smaller for a larger probability
RiskScaledUpOnly(f, m, which, sl, qty) ==
    LET r == per_trade_risk(m, f.ml_p)
        bal == acct[which].balance
    IN  /\ qty = order_qty(f.entry, sl, bal, bal, r)
        /\ AtLeast(r, RISK_PER_TRADE_PCT, 1)
        /\ ~AtLeast(r, 5 * RISK_PER_TRADE_PCT + 1, 2)
        /\ (~SufficientlyTrained(m) \/ f.ml_p = NoProb) => r = BaseRisk
        /\ qty >= order_qty(f.entry, sl, bal, bal, BaseRisk)
        /\ \A p \in ProbValues :
              /\ p <= f.ml_p => AtLeast(r, per_trade_risk(m, p).n, per_trade_risk(m, p).d)
              /\ (SufficientlyTrained(m) /\ p > f.ml_p /\ f.ml_p > m.threshold
                  /\ 3 * (f.ml_p - m.threshold) < 2 * (100 - m.threshold))
                 => ~AtLeast(r, per_trade_risk(m, p).n, per_trade_risk(m, p).d)

\* C34: the risk percent place_order_one sizes an order with is never below
\* RISK_PER_TRADE_PCT and never above 2.5 x RISK_PER_TRADE_PCT, grows with the
\* probability's excess over the threshold while the model is enabled and
\* sufficiently trained, and equals RISK_PER_TRADE_PCT when the model is
\* disabled or insufficiently trained.
C34_RiskScalesUpOnly ==
    [][\A t \in Threads :
         /\ (pc[t] = "po_live" /\ pc'[t] = "po_live_order")
            => RiskScaledUpOnly(po[t], ml, "LIVE", po'[t].lsl, po'[t].lqty)
         /\ (pc[t] = "po_sim" /\ po'[t].sim = "local")
            => RiskScaledUpOnly(po[t], ml, "SIM", pos'["SIM"][po[t].sym].sl,
                                pos'["SIM"][po[t].sym].qty)]_vars

\* a trained model passed a probability above its threshold and the position
\* was opened larger than the base risk percent sizes it: once with part of the
\* bonus, once with all of it
C34_Witness ==
    /\ SufficientlyTrained(ml)
    /\ \E a \in Accounts :
          LET p == pos[a]["s1"]
              base == order_qty(p.entry, p.sl, START_BALANCE, START_BALANCE, BaseRisk)
          IN  p # NoPos /\ acct[a].balance = START_BALANCE /\ p.qty > base


\* ------------------------------------------------- when the model may block
\* thread t's on_kline has a proposal at hand and asks should_take (a step
\* that consumes the proposal and moves no other thread)
AsksModel(t) ==
    /\ pc[t] = "idle"
    /\ proposals'.todo # proposals.todo
    /\ \A u \in Threads \ {t} : pc'[u] = pc[u]

\* the proposal goes on to place_order
TakesEntry(t) == pc'[t] = "po_lock"

\* place_order_one returns filtered_by_p for an account
FiltersByP(t) ==
    \/ pc[t] = "po_live" /\ po'[t].live = "filtered_by_p"
    \/ pc[t] = "po_sim" /\ po'[t].sim = "filtered_by_p"

\* place_order_one stores a position
OpensPosition(t) ==
    \/ pc[t] = "po_live_set" /\ po'[t].live = "live"
    \/ pc[t] = "po_sim" /\ po'[t].sim = "local"

\* the model is enabled and has seen the configured minimum of outcomes
ActiveModel(m) ==
    /\ m.enabled
    /\ m.pos_seen + m.neg_seen >= AI_MIN_SEEN_FOR_ACTION
    /\ m.pos_seen + m.neg_seen >= ML_FILTER_AFTER_SEEN

\* while `blocking` does not hold of the model it turns no entry down and
\* hands no probability on, and place_order_one filters nothing; once it
\* holds, an entry is taken only with a probability at or above ML.threshold
BlocksOnlyWhile(blocking(_)) ==
    \A t \in Threads :
       /\ (AsksModel(t) /\ ~blocking(ml'))
          => TakesEntry(t) /\ po'[t].ml_p = NoProb
       /\ (FiltersByP(t) \/ (OpensPosition(t) /\ po[t].ml_p # NoProb))
          => blocking(ml)
       /\ (AsksModel(t) /\ blocking(ml') /\ TakesEntry(t))
          => po'[t].ml_p # NoProb /\ po'[t].ml_p >= ml'.threshold
       /\ (OpensPosition(t) /\ blocking(ml))
          => po[t].ml_p # NoProb /\ po[t].ml_p >= ml.threshold

FittedModel(m) == ActiveModel(m) /\ m.n_seen >= 30

RecordsClose(t) == pc[t] = "cp_train" /\ pc'[t] # "cp_train" /\ ml_ok(cl[t].which)

\* C36: each position id contributes at most one training sample at
\* settlement (the first record_close for an (account, symbol) consumes the
\* registered open-feature sample, later ones find none); a record_close that
\* finds no open-feature sample adds the outcome to ML.recent only, with no
\* fit and no change of pos_seen or neg_seen; _TRAINED_POS_UIDS only grows.
C36_OneSamplePerPosition ==
    [][/\ \A i, j \in DOMAIN mlSamples' :
             (/\ mlSamples'[i].which = mlSamples'[j].which
              /\ mlSamples'[i].id = mlSamples'[j].id) => i = j
       /\ \A t \in Threads :
             /\ RecordsClose(t) => <<cl[t].which, cl[t].sym>> \notin mlOpen'
             /\ (RecordsClose(t) /\ <<cl[t].which, cl[t].sym>> \notin mlOpen)
                => /\ mlSamples' = mlSamples
                   /\ Len(ml'.recent) = Len(ml.recent) + 1
                   /\ ml'.n_seen = ml.n_seen
                   /\ ml'.pos_seen = ml.pos_seen /\ ml'.neg_seen = ml.neg_seen
       /\ trained \subseteq trained']_vars


\* ------------------------------------------------ in-flight markers released
\* a market worker with two signals for one symbol beside the reconciliation
\* worker, the venue (one resting exit may fill) and the background re-check
\* that close_position_one starts
ReleaseFills == 1
ReleaseIds == 8
ReleaseThreads == {"mkt1", "sync"}

InitRelease ==
    InitWith({"s1"}, Budget(0, <<GoLong, GoShort>>, ReleaseFills, 0, ReleaseIds, 0))

\* lines 1420-1426: time passes until the 5 s throttle of the reconciliation
\* pass has run out; the clock is followed only while a position that
\* place_order has written still has its marker
SyncDue ==
    /\ now - lastPosSync < POS_SYNC_MS
    /\ \E s \in inflight : pos["LIVE"][s] # NoPos
    /\ now' = lastPosSync + POS_SYNC_MS
    /\ UNCHANGED <<ticks, pos, inflight, orderLock, trained, lastCloseTs, pc, cl>>
    /\ UNCH_venue /\ UNCH_env /\ UNCH_ledger /\ UNCH_ml /\ UNCH_risk /\ UNCH_sync
    /\ UNCH_frames /\ UNCH_misc

\* close_position_one(..., skip_exchange=True), the call of the reconciliation
\* pass (line 1476): the venue orders of lines 3088-3097 are not on its path
close_position_one_skip_exchange(t) ==
    \/ close_position_one_read(t)
    \/ close_position_one_debounce(t)
    \/ close_position_one_debounced(t)
    \/ close_position_one_dedup(t)
    \/ close_position_one_book(t)
    \/ close_position_one_clear(t)
    \/ close_position_one_unflight(t)
    \/ close_position_one_train(t)

NextRelease ==
    \/ SyncDue
    \/ VenueFill
    \/ reconcile_and_force_close("s1")
    \/ \E t \in ReleaseThreads : close_position_one_skip_exchange(t)
    \/ \E t \in ReleaseThreads : sync_live_positions_periodic(t)
    \/ on_kline("mkt1")
    \/ place_order("mkt1")
    \/ pos_sync_worker("sync")

\* the statements of the market worker that can wait (for ORDER_LOCK) or that
\* follow one another without waiting, the two sizing statements of
\* place_order_one apart
MarketWorkerStep(t) ==
    \/ on_kline(t)
    \/ place_order_lock(t)
    \/ place_order_check(t)
    \/ place_order_reserve(t)
    \/ place_order_one_live_order(t)
    \/ place_order_one_live_set(t)
    \/ place_order_finally(t)
    \/ place_order_release(t)
    \/ place_order_return(t)
    \/ close_position_one_skip_exchange(t)
    \/ sync_live_positions_periodic(t)

\* every thread is scheduled again and again and the clock goes on: a thread
\* whose next statement can run runs it. The two sizing statements of
\* place_order_one (po_live, po_sim) wait for nothing, so the market worker is
\* not in front of either for ever.
SpecRelease ==
    /\ InitRelease /\ [][NextRelease]_vars
    /\ WF_vars(SyncDue)
    /\ WF_vars(reconcile_and_force_close("s1"))
    /\ WF_vars(MarketWorkerStep("mkt1"))
    /\ []<>(pc["mkt1"] \notin {"po_live", "po_sim"})
    /\ WF_vars(pos_sync_worker("sync") \/ close_position_one_skip_exchange("sync")
                 \/ sync_live_positions_periodic("sync"))

\* C37: every in-flight marker place_order adds for a symbol is eventually
\* removed (by the finally block after a failed placement, by reconciliation
\* or a push event confirming the position, or by settlement) when the workers
\* are scheduled fairly: no symbol stays in OPEN_INFLIGHT for ever.
C37_MarkerEventuallyRemoved ==
    \A s \in Symbols : (s \in inflight) ~> (s \notin inflight)


\* ------------------------------------------------------- two saves at once
\* the autosave worker beside a market worker whose _local_open saves the
\* simulation state itself (persist_sim_state(force=True), line 2478), and the
\* reconciliation worker
SaveLapses == 1
SaveIds == 4
SaveFaults == 1

InitSave ==
    InitWith({"s1"}, Budget(SaveLapses, <<GoLong, GoShort>>, 0, 0, SaveIds, SaveFaults))

NextSave ==
    \/ Lapse
    \/ \E t \in ReleaseThreads : close_position_one_skip_exchange(t)
    \/ \E t \in ReleaseThreads : sync_live_positions_periodic(t)
    \/ on_kline("mkt1")
    \/ place_order("mkt1")
    \/ pos_sync_worker("sync")
    \/ autosave_state_worker("save")

SpecSave == InitSave /\ [][NextSave]_vars

\* the state file holds the simulation state as it is now, which no snapshot
\* taken before the state last changed can equal (every open and every
\* settlement changes the positions or lengthens the trade list)
FileIsPresentState ==
    /\ store.file.exists
    /\ store.file.data = snapshot_sim_state(acct["SIM"], trades["SIM"], pos["SIM"])

\* C38: when two persist_sim_state calls run concurrently the state file ends
\* up with the snapshot of the later simulation state: a snapshot taken
\* earlier is never written over one taken later, so a write that changes a
\* file holding the present state leaves the present state in it.
C38_LaterSnapshotStays ==
    [][(FileIsPresentState /\ store'.file.data # store.file.data)
          => FileIsPresentState']_vars

\* ------------------------------------------------- the start of the process
\* the restore calls of a starting process in the order the program makes
\* them: _start_background_workers (called first, line 4859) runs
\* restore_sim_state (line 4819); main (line 4864) then runs
\* restore_trades_from_csv (line 4668) and restore_sim_state once more
\* (line 4669), which returns at once because _SIM_STATE_DONE is set
start_up ==
    /\ ~store.done
    /\ LET ids == [s \in Symbols |->
                     nextId + (CHOOSE i \in DOMAIN SymbolOrder : SymbolOrder[i] = s) - 1]
           r == restored_sim_state(store.file.data, ids)
           loaded == store.file.exists /\ store.file.whole
           A == IF loaded THEN [acct EXCEPT !["SIM"] = r.acct] ELSE acct
           T == IF loaded THEN [trades EXCEPT !["SIM"] = r.trades] ELSE trades
           c == restore_trades_from_csv(A, T, store.csv)
       IN  /\ acct' = c.acct
           /\ trades' = c.trades
           /\ IF loaded
              THEN /\ pos' = [pos EXCEPT !["SIM"] =
                                [s \in Symbols |-> IF r.pos[s] # NoPos THEN r.pos[s] ELSE @[s]]]
                   /\ nextId' = nextId + Len(SymbolOrder)
              ELSE UNCHANGED <<pos, nextId>>
    /\ store' = [store EXCEPT !.done = TRUE]
    /\ pc' = [t \in Threads |-> IF pc[t] = "boot" THEN "idle" ELSE pc[t]]
    /\ UNCHANGED <<inflight, orderLock, trained, lastCloseTs, cl>>
    /\ UNCH_clock /\ UNCH_venue /\ UNCH_env /\ UNCH_ml /\ UNCH_risk /\ UNCH_sync /\ UNCH_frames
    /\ UNCHANGED <<pool, lastPrice, rulesCache, hkPrev, lastAiExit, proposals>>

BootLapses == 2
BootFaults == 2

InitBoot == InitPersist /\ ticks = BootLapses /\ env.faults = BootFaults

NextBoot ==
    \/ Lapse
    \/ autosave_state_worker("save")
    \/ Restart
    \/ start_up

SpecBoot == InitBoot /\ [][NextBoot]_vars

\* the entries of trade list T that describe the recorded trade r
Entries(T, r) ==
    {i \in DOMAIN T :
        /\ T[i].ts = r.ts /\ T[i].symbol = r.symbol /\ T[i].side = r.side
        /\ T[i].entry = r.entry /\ T[i].exit = r.exit /\ T[i].pnl_cash = r.pnl_cash}

\* the step in which a starting process restores its books
StartsUp == ~store.done /\ store'.done

\* C39: when a process starts beside a whole state file, the restore calls
\* leave every SIM trade recorded in that file exactly once in the SIM trade
\* list, and the SIM total_pnl equal to the total_pnl stored in the file
C39_RestoredOnce ==
    [][(StartsUp /\ store.file.exists /\ store.file.whole) =>
         /\ \A i \in DOMAIN store.file.data.trades :
               Cardinality(Entries(trades'["SIM"], store.file.data.trades[i])) = 1
         /\ acct'["SIM"].total_pnl = store.file.data.account.total_pnl]_vars

\* ------------------------------------------------ the stop of a SIM position
\* C40: while one SIM position stays open its stored stop only tightens: no
\* step (trailing update or retarget of the exit manager) lowers the stop of
\* a LONG or raises the stop of a SHORT.
C40_SimStopOnlyTightens ==
    [][\A s \in Symbols :
         LET p == pos["SIM"][s]
             q == pos'["SIM"][s]
         IN  (p # NoPos /\ q # NoPos /\ q.id = p.id /\ p.sl # 0)
               => IF p.side = "LONG" THEN q.sl >= p.sl ELSE q.sl <= p.sl]_vars

====
